---- MODULE Spec2Model ----
(***************************************************************************)
(* Conversation manager (conv/conversation.go), flow engine                *)
(* (conv/engine.go) and router (handler/router.go) of tg-listener.         *)
(*                                                                         *)
(* Strings that the code takes apart (branch conditions, user input, data  *)
(* keys and values) are sequences of one-character strings; identifiers    *)
(* that are only compared (flow ids, step ids, handler names) are TLA+     *)
(* strings.  The empty Go string is <<>> for the former and "" for the     *)
(* latter.                                                                 *)
(***************************************************************************)
EXTENDS Integers, Sequences, FiniteSets, TLC

VARIABLES
    config,         \* FlowEngine.config / Router.config: flow id -> flow
    reg,            \* what is registered with the Bot, the Router and the FlowEngine
    manager,        \* the Manager's own fields (defaultTTL)
    ctx,            \* the context handed to Manager.StartCleanupTask
    conversations,  \* Manager.conversations: key -> session instance
    sessions,       \* heap of Conversation objects, index = instance
    now,            \* time.Now()
    endFired,       \* per instance: number of onEnd invocations
    startFired,     \* per instance: number of onStart invocations
    pc,             \* per goroutine: stack of code positions
    op,             \* per goroutine: the operation it runs and its arguments
    loc,            \* per goroutine: local variables
    ret,            \* per goroutine: value returned by the last call
    out             \* per goroutine: what the current operation emitted

vars == <<config, reg, manager, ctx, conversations, sessions, now, endFired,
          startFired, pc, op, loc, ret, out>>

---------------------------------------------------------------------------
(* Bounds *)

MaxSessions == 2
MaxTime == 2
MaxHist == 3
MaxBranches == 2

---------------------------------------------------------------------------
(* Go string functions used by the engine *)

SubStr(s, i, j) == IF i > j THEN <<>> ELSE SubSeq(s, i, j)

HasPrefix(s, p) == Len(s) >= Len(p) /\ SubStr(s, 1, Len(p)) = p

TrimPrefix(s, p) == IF HasPrefix(s, p) THEN SubStr(s, Len(p) + 1, Len(s)) ELSE s

\* strings.Index, 1-based; 0 when sep does not occur
Index(s, sep) ==
    LET hits == {i \in 1..(Len(s) - Len(sep) + 1) : SubStr(s, i, i + Len(sep) - 1) = sep}
    IN  IF hits = {} THEN 0 ELSE CHOOSE i \in hits : \A j \in hits : i <= j

RECURSIVE Split(_, _)
Split(s, sep) ==
    LET i == Index(s, sep)
    IN  IF i = 0 THEN <<s>>
        ELSE <<SubStr(s, 1, i - 1)>> \o Split(SubStr(s, i + Len(sep), Len(s)), sep)

\* strings.Trim(s, cutset)
Trim(s, cutset) ==
    LET keep == {i \in 1..Len(s) : s[i] \notin cutset}
    IN  IF keep = {} THEN <<>>
        ELSE SubStr(s, CHOOSE i \in keep : \A j \in keep : i <= j,
                       CHOOSE i \in keep : \A j \in keep : i >= j)

TrimSpace(s) == Trim(s, {" ", "\t", "\n", "\r"})

Quotes == {"\"", "'"}

---------------------------------------------------------------------------
(* Literals of the model's configuration *)

sInput == <<"i", "n", "p", "u", "t">>
sEq == <<" ", "=", "=", " ">>
sNe == <<" ", "!", "=", " ">>
Q(s) == <<"\"">> \o s \o <<"\"">>

NoStep == [nil |-> TRUE]   \* a nil *StepConfig / *FlowConfig
NoValidation == [Type |-> "<nil>", Pattern |-> <<>>, ErrorMsg |-> <<>>, Min |-> <<>>, Max |-> <<>>,
                 Custom |-> ""]

---------------------------------------------------------------------------
(* config.Config / config.FlowConfig lookups *)

GetFlow(cfg, flowID) == IF flowID \in DOMAIN cfg THEN cfg[flowID] ELSE NoStep

GetStep(cfg, flowID, stepID) ==
    LET flow == GetFlow(cfg, flowID)
    IN  IF flow = NoStep THEN NoStep
        ELSE IF stepID \in DOMAIN flow.Steps THEN flow.Steps[stepID] ELSE NoStep

---------------------------------------------------------------------------
(* Conversation accessors *)

\* the values of Conversation.Data that are not strings: the int 5
NonStrings == {<<"int(5)">>}

\* Conversation.GetString: "" for a missing key and for a value that is not
\* a string
GetString(c, key) ==
    IF key \in DOMAIN c.Data /\ c.Data[key] \notin NonStrings THEN c.Data[key] ELSE <<>>

GetPreviousStepFirst(c) ==
    IF Len(c.History) >= 2 THEN c.History[1].StepID ELSE ""

GetPreviousStepLast(c) ==
    IF Len(c.History) >= 1 THEN c.History[Len(c.History)].StepID ELSE ""

GetPreviousStep(c) ==
    IF Len(c.History) >= 2 THEN c.History[Len(c.History) - 1].StepID ELSE ""

IsExpiredBefore(c, t) == t < c.ExpiresAt

IsExpiredInclusive(c, t) == t >= c.ExpiresAt

\* Conversation.IsExpired at time t: time.Now().After(c.ExpiresAt)
IsExpired(c, t) == t > c.ExpiresAt

---------------------------------------------------------------------------
(* FlowEngine: validation *)

\* an error value: failed = (err != nil), msg = err.Error(); called: the
\* custom validator that was invoked to produce it ("" when none was)
NoError == [failed |-> FALSE, msg |-> <<>>, called |-> ""]
Error(m) == [failed |-> TRUE, msg |-> m, called |-> ""]

getErrorMsg(configured, defaultMsg) ==
    IF configured # <<>> THEN configured ELSE defaultMsg

Digits == {"0", "1", "2", "3", "4", "5", "6", "7", "8", "9"}

DigitVal(ch) ==
    CASE ch = "0" -> 0 [] ch = "1" -> 1 [] ch = "2" -> 2 [] ch = "3" -> 3
      [] ch = "4" -> 4 [] ch = "5" -> 5 [] ch = "6" -> 6 [] ch = "7" -> 7
      [] ch = "8" -> 8 [] ch = "9" -> 9

RECURSIVE DecVal(_)
DecVal(s) == IF s = <<>> THEN 0 ELSE 10 * DecVal(SubStr(s, 1, Len(s) - 1)) + DigitVal(s[Len(s)])

\* the spellings of NaN that strconv.ParseFloat accepts (any case, no sign)
IsNaNLiteral(s) ==
    /\ Len(s) = 3
    /\ s[1] \in {"n", "N"} /\ s[2] \in {"a", "A"} /\ s[3] \in {"n", "N"}

\* strconv.ParseFloat on the literals of the model: an optional sign followed
\* by decimal digits, or NaN; every other string of the input domain is a
\* syntax error.  nan: the value is math.NaN()
ParseFloat(s) ==
    LET signed == s # <<>> /\ s[1] \in {"+", "-"}
        body == IF signed THEN Tail(s) ELSE s
    IN  IF body # <<>> /\ \A i \in 1..Len(body) : body[i] \in Digits
        THEN [ok |-> TRUE, nan |-> FALSE,
              val |-> IF signed /\ s[1] = "-" THEN 0 - DecVal(body) ELSE DecVal(body)]
        ELSE IF IsNaNLiteral(s)
        THEN [ok |-> TRUE, nan |-> TRUE, val |-> 0]
        ELSE [ok |-> FALSE, nan |-> FALSE, val |-> 0]

\* x < y on float64: false when either side is NaN
Less(x, y) == ~x.nan /\ ~y.nan /\ x.val < y.val

validateNumber(input, validation) ==
    LET num == ParseFloat(input)
        min == ParseFloat(validation.Min)
        max == ParseFloat(validation.Max)
    IN  IF ~num.ok
        THEN Error(getErrorMsg(validation.ErrorMsg, <<"Please enter a valid number">>))
        ELSE IF validation.Min # <<>> /\ min.ok /\ Less(num, min)
        THEN Error(getErrorMsg(validation.ErrorMsg, <<"Number cannot be less than ", validation.Min>>))
        ELSE IF validation.Max # <<>> /\ max.ok /\ Less(max, num)
        THEN Error(getErrorMsg(validation.ErrorMsg, <<"Number cannot be greater than ", validation.Max>>))
        ELSE NoError

Lower == {"a", "b", "c", "d", "e", "f", "g", "h", "i", "j", "k", "l", "m",
          "n", "o", "p", "q", "r", "s", "t", "u", "v", "w", "x", "y", "z"}
Upper == {"A", "B", "C", "D", "E", "F", "G", "H", "I", "J", "K", "L", "M",
          "N", "O", "P", "Q", "R", "S", "T", "U", "V", "W", "X", "Y", "Z"}
HexDigits == Digits \cup {"a", "b", "c", "d", "e", "f"} \cup {"A", "B", "C", "D", "E", "F"}

\* the characters of the model that UTF-8 encodes in two bytes
TwoBytes == {"é"}

\* len(s): the number of bytes
RECURSIVE ByteLen(_)
ByteLen(s) == IF s = <<>> THEN 0 ELSE (IF Head(s) \in TwoBytes THEN 2 ELSE 1) + ByteLen(Tail(s))

\* strconv.ParseUint(s, 16, 64) succeeds: hexadecimal digits only, and a value
\* below 2^64 (at most 16 digits after the leading zeros)
ParseUintHexOk(s) ==
    /\ s # <<>>
    /\ \A i \in 1..Len(s) : s[i] \in HexDigits
    /\ LET nonzero == {i \in 1..Len(s) : s[i] # "0"}
       IN  nonzero = {} \/ Len(s) - (CHOOSE i \in nonzero : \A j \in nonzero : i <= j) + 1 <= 16

sAddressMsg == <<"Please enter a valid Ethereum address">>

validateAddressLen(input, validation) ==
    IF ByteLen(input) # 42 \/ ~HasPrefix(input, <<"0", "x">>)
    THEN Error(getErrorMsg(validation.ErrorMsg, sAddressMsg))
    ELSE NoError

\* (the prefix 0x is two bytes, so input[2:] is the input without its first
\* two characters)
validateAddress(input, validation) ==
    IF ByteLen(input) # 42 \/ ~HasPrefix(input, <<"0", "x">>)
    THEN Error(getErrorMsg(validation.ErrorMsg, sAddressMsg))
    ELSE LET rest == SubStr(input, 3, Len(input))
         IN  IF ~ParseUintHexOk(rest) /\ \E i \in 1..Len(rest) : rest[i] \notin HexDigits
             THEN Error(getErrorMsg(validation.ErrorMsg, sAddressMsg))
             ELSE NoError

\* regexp.MatchString of ^[a-zA-Z0-9._%+-]+@[a-zA-Z0-9.-]+\.[a-zA-Z]{2,}$
EmailMatch(s) ==
    LET local == Lower \cup Upper \cup Digits \cup {".", "_", "%", "+", "-"}
        domain == Lower \cup Upper \cup Digits \cup {".", "-"}
    IN  \E at \in 2..Len(s), dot \in 3..Len(s) :
           /\ s[at] = "@" /\ s[dot] = "."
           /\ at + 1 < dot /\ dot + 2 <= Len(s)
           /\ \A i \in 1..(at - 1) : s[i] \in local
           /\ \A i \in (at + 1)..(dot - 1) : s[i] \in domain
           /\ \A i \in (dot + 1)..Len(s) : s[i] \in Lower \cup Upper

validateEmail(input, validation) ==
    IF ~EmailMatch(input)
    THEN Error(getErrorMsg(validation.ErrorMsg, <<"Please enter a valid email address">>))
    ELSE NoError

\* regexp.MatchString(pattern, s) on the patterns of the model: literal
\* characters, with ^ in front and $ at the end as anchors; a pattern with an
\* unclosed ( does not compile (err: TRUE)
MatchString(pattern, s) ==
    LET front == pattern # <<>> /\ Head(pattern) = "^"
        p1 == IF front THEN Tail(pattern) ELSE pattern
        back == p1 # <<>> /\ p1[Len(p1)] = "$"
        lit == IF back THEN SubStr(p1, 1, Len(p1) - 1) ELSE p1
    IN  IF \E i \in 1..Len(pattern) : pattern[i] = "("
        THEN [matched |-> FALSE, err |-> TRUE]
        ELSE [matched |-> \E i \in 1..(Len(s) + 1) :
                              /\ i + Len(lit) - 1 <= Len(s)
                              /\ SubStr(s, i, i + Len(lit) - 1) = lit
                              /\ front => i = 1
                              /\ back => i + Len(lit) - 1 = Len(s),
              err |-> FALSE]

sConfigurationError == <<"Validation rule configuration error">>

validateRegex(input, validation) ==
    IF validation.Pattern = <<>> THEN NoError
    ELSE LET m == MatchString(validation.Pattern, input)
         IN  IF m.err THEN Error(sConfigurationError)
             ELSE IF ~m.matched
             THEN Error(getErrorMsg(validation.ErrorMsg, <<"Input format is incorrect">>))
             ELSE NoError

\* the custom validators an application registers, by what they return:
\* nil for every value, an error with a message of their own, or an error
\* with the empty message
ValidatorKinds == {"accept", "reject", "blank"}

sValidatorMsg == <<"value refused">>

\* validator(value, conv) of a registered Validator of the given kind
Validator(kind, name, value, c) ==
    CASE kind = "accept" -> [NoError EXCEPT !.called = name]
      [] kind = "reject" -> [Error(sValidatorMsg) EXCEPT !.called = name]
      [] kind = "blank" -> [Error(<<>>) EXCEPT !.called = name]

\* FlowEngine.GetValidator: e.validators[name] ("<nil>": none)
GetValidator(validators, name) ==
    IF name \in DOMAIN validators THEN validators[name] ELSE "<nil>"

validateCustomStrict(validators, input, validation, c) ==
    IF validation.Custom = "" THEN NoError
    ELSE LET validator == GetValidator(validators, validation.Custom)
         IN  IF validator = "<nil>" THEN Error(sConfigurationError)
             ELSE Validator(validator, validation.Custom, input, c)

validateCustom(validators, input, validation, c) ==
    IF validation.Custom = "" THEN NoError
    ELSE LET validator == GetValidator(validators, validation.Custom)
         IN  IF validator = "<nil>" THEN NoError
             ELSE Validator(validator, validation.Custom, input, c)

\* FlowEngine.ValidateInput with the validators registered in the engine
ValidateInput(cfg, c, input) ==
    LET step == GetStep(cfg, c.FlowID, c.StepID)
    IN  IF step = NoStep THEN NoError
        ELSE IF step.Validation = NoValidation THEN NoError
        ELSE LET validation == step.Validation
             IN  CASE validation.Type = "number" -> validateNumber(input, validation)
                   [] validation.Type = "address" -> validateAddress(input, validation)
                   [] validation.Type = "email" -> validateEmail(input, validation)
                   [] validation.Type = "regex" -> validateRegex(input, validation)
                   [] validation.Type = "custom" -> validateCustom(reg.validators, input, validation, c)
                   [] OTHER -> NoError

---------------------------------------------------------------------------
(* FlowEngine: conditions and next-step resolution *)

sData == <<"d", "a", "t", "a", ".">>

simpleEvaluate(c, condition) ==
    LET eq == Split(condition, <<"=", "=">>)
        ne == Split(condition, <<"!", "=">>)
    IN  IF Len(eq) = 2
        THEN GetString(c, TrimPrefix(TrimSpace(eq[1]), sData)) = Trim(TrimSpace(eq[2]), Quotes)
        ELSE IF Len(ne) = 2
        THEN GetString(c, TrimPrefix(TrimSpace(ne[1]), sData)) # Trim(TrimSpace(ne[2]), Quotes)
        ELSE TRUE

\* the verdict of the registered custom evaluator ev
conditionEvaluator(ev, c, condition) == ev = "allow"

EvaluateCondition(c, condition) ==
    IF condition = <<>> THEN TRUE
    ELSE IF reg.conditionEvaluator # "<nil>" THEN conditionEvaluator(reg.conditionEvaluator, c, condition)
    ELSE simpleEvaluate(c, condition)

evaluateBranchCondition(c, condition, input) ==
    LET parts == Split(condition, <<"=", "=">>)
    IN  IF HasPrefix(condition, sInput) /\ Len(parts) = 2
        THEN input = Trim(TrimSpace(parts[2]), Quotes)
        ELSE simpleEvaluate(c, condition)

LastMatch(c, branches, input) ==
    LET hits == {i \in 1..Len(branches) : evaluateBranchCondition(c, branches[i].Condition, input)}
    IN  IF hits = {} THEN 0 ELSE CHOOSE i \in hits : \A j \in hits : i >= j

\* index of the branch the loop of DetermineNextStep returns from, 0 if none
FirstMatch(c, branches, input) ==
    LET hits == {i \in 1..Len(branches) : evaluateBranchCondition(c, branches[i].Condition, input)}
    IN  IF hits = {} THEN 0 ELSE CHOOSE i \in hits : \A j \in hits : i <= j

DetermineNextStep(cfg, c, input) ==
    LET step == GetStep(cfg, c.FlowID, c.StepID)
    IN  IF step = NoStep THEN ""
        ELSE LET i == FirstMatch(c, step.Branches, input)
             IN  IF i # 0 THEN step.Branches[i].NextStep ELSE step.NextStep

---------------------------------------------------------------------------
(* The configuration, users and inputs of the model *)

sN == <<"n">>
sC == <<"c">>
s5 == <<"5">>
sA == <<"a">>
sB == <<"b">>

NumberRule == [NoValidation EXCEPT !.Type = "number", !.Min = <<"1">>, !.Max = <<"1", "0">>]

\* flow F: A (text, number 1..10, stored as n) -> B (text, stored as c,
\* branches on the input: a -> C, b -> D, otherwise stay) ; C accepts
\* callbacks only; D hands over to the completion handler h
DefaultFlows ==
    [F |-> [InitialStep |-> "A", TTL |-> 1, Steps |->
        [A |-> [InputType |-> "text", Validation |-> NumberRule, StoreAs |-> sN,
                NextStep |-> "B", Branches |-> <<>>, OnComplete |-> ""],
         B |-> [InputType |-> "text", Validation |-> NoValidation, StoreAs |-> sC,
                NextStep |-> "",
                Branches |-> << [Condition |-> sInput \o sEq \o Q(sA), NextStep |-> "C"],
                                [Condition |-> sInput \o sEq \o Q(sB), NextStep |-> "D"] >>,
                OnComplete |-> ""],
         C |-> [InputType |-> "callback", Validation |-> NoValidation, StoreAs |-> <<>>,
                NextStep |-> "", Branches |-> <<>>, OnComplete |-> ""],
         D |-> [InputType |-> "any", Validation |-> NoValidation, StoreAs |-> <<>>,
                NextStep |-> "", Branches |-> <<>>, OnComplete |-> "h"]]]]

Procs == {"p1", "p2"}

\* the goroutine of the router's handler
Handler == "p1"
UserIDs == {1, 1114112}
ChatIDs == {1}
TTLs == {0, 1}
TextInputs == {s5, sA, sB}

\* 30 * time.Minute, the default of NewManager, in clock ticks
defaultTTL == 2

NewManagerKeep(d) == [given |-> d, defaultTTL |-> d]

\* NewManager(defaultTTL): the Manager's fields (given: the argument, a history
\* variable)
NewManager(d) == [given |-> d, defaultTTL |-> IF d <= 0 THEN defaultTTL ELSE d]

\* context.Background() / a context whose Done channel is not closed yet
Background == [done |-> FALSE]

\* the auth predicate that SetAuthFunc registers (Bot.authFunc)
authFunc(userID) == userID \in {1, 1114112}

CheckAuthAlways(userID) == TRUE

\* fn := b.GetAuthFunc(); if fn == nil { return true }; return fn(...)
CheckAuth(userID) == IF reg.authFunc THEN authFunc(userID) ELSE TRUE

\* FlowEngine.stepHandlers
stepHandlers == {"h"}

\* core: the reserved navigation tokens
CallbackMainMenu == <<"m", "a", "i", "n", "_", "m", "e", "n", "u">>
CallbackBack == <<"b", "a", "c", "k">>
CallbackCancel == <<"c", "a", "n", "c", "e", "l">>

\* the key under which the wrapper registers its main-menu handler
MainMenuInternalKey == CallbackMainMenu \o <<"_", "i", "n", "t", "e", "r", "n", "a", "l">>

\* FlowEngine.conditionEvaluator: nil, or an evaluator that rejects, or one
\* that accepts, every condition
Evaluators == {"<nil>", "deny", "allow"}

\* the registrations after the wrapper's construction: an auth predicate,
\* the internal main-menu handler, the menu: and flow: prefix handlers and a
\* default message handler
DefaultReg ==
    [authFunc |-> TRUE,
     commandHandlers |-> {},
     callbackHandlers |-> {MainMenuInternalKey},
     prefixHandlers |-> {<<"m", "e", "n", "u", ":">>, <<"f", "l", "o", "w", ":">>},
     messageHandler |-> TRUE,
     photoHandler |-> FALSE,
     documentHandler |-> FALSE,
     conditionEvaluator |-> "<nil>",
     validators |-> <<>>]

---------------------------------------------------------------------------
(* Manager: keys and construction *)

\* rune(x): conversion of an int64 to int32; the ids of the model are below
\* 2^31, where the conversion keeps the value
Rune(x) == x

\* string(r): the UTF-8 encoding of r, U+FFFD for an invalid code point
RuneString(r) == IF r < 0 \/ r > 1114111 \/ (r >= 55296 /\ r <= 57343) THEN 65533 ELSE r

conversationKey(userID, chatID) == <<RuneString(Rune(userID)), RuneString(Rune(chatID))>>

\* prior is a history variable: the StepID the session held before its last SetStep
NewConversation(userID, chatID, flowID, stepID, ttl, t) ==
    [UserID |-> userID, ChatID |-> chatID, FlowID |-> flowID, StepID |-> stepID,
     Data |-> <<>>, History |-> <<>>, ExpiresAt |-> t + ttl, prior |-> ""]

Delete(m, key) == [k \in DOMAIN m \ {key} |-> m[k]]

Put(m, key, v) == [k \in DOMAIN m \cup {key} |-> IF k = key THEN v ELSE m[k]]

---------------------------------------------------------------------------
(* Goroutines *)

\* the zero Conversation
NoSession == [UserID |-> 0, ChatID |-> 0, FlowID |-> "", StepID |-> "",
              Data |-> <<>>, History |-> <<>>, ExpiresAt |-> 0, prior |-> ""]

\* the arguments of an operation (input: the text of a message, data: the
\* data of a callback query, cond: a condition expression).  preId, pre and late are history variables of an
\* inbound event: the session the index held for the sender's key when the
\* event arrived, and whether that session had expired by then
NoOp == [name |-> "", user |-> 0, chat |-> 0, flow |-> "", step |-> "", ttl |-> 0,
         input |-> <<>>, data |-> <<>>, cond |-> <<>>, preId |-> 0, pre |-> NoSession, late |-> FALSE]

Arrival(o) ==
    LET key == conversationKey(o.user, o.chat)
        id == IF key \in DOMAIN conversations THEN conversations[key] ELSE 0
    IN  [o EXCEPT !.preId = id, !.late = (id # 0 /\ now > sessions[id].ExpiresAt),
                  !.pre = IF id = 0 THEN NoSession ELSE sessions[id]]

\* c: the handler's session, g: Get's conv, e: End's conv, cs: ChangeStep's
\* conv, step: the handler's *StepConfig, old/new: ChangeStep's oldStep and
\* newStep, sid: the c.StepID read as AddHistory's argument, ok: the verdict
\* EvaluateCondition returned
NoLoc == [user |-> 0, chat |-> 0, c |-> 0, g |-> 0, e |-> 0, cs |-> 0,
          step |-> NoStep, old |-> "", new |-> "", sid |-> "", ok |-> FALSE]

Idle(p) == pc[p] = <<>>
At(p, label) == pc[p] # <<>> /\ Head(pc[p]) = label

Goto(p, labels) == pc' = [pc EXCEPT ![p] = labels \o Tail(pc[p])]
Return(p) == pc' = [pc EXCEPT ![p] = Tail(pc[p])]

Emit(p, ev) == out' = [out EXCEPT ![p] = Append(out[p], ev)]

Key(p) == conversationKey(loc[p].user, loc[p].chat)

\* a goroutine starts the operation o at the code positions labels
Begin(p, o, labels) ==
    /\ Idle(p)
    /\ op' = [op EXCEPT ![p] = o]
    /\ loc' = [loc EXCEPT ![p] = [NoLoc EXCEPT !.user = o.user, !.chat = o.chat, !.new = o.step]]
    /\ pc' = [pc EXCEPT ![p] = labels \o <<"done">>]
    /\ UNCHANGED <<config, reg, manager, ctx, conversations, sessions, now, endFired, startFired, ret, out>>

\* the operation has returned: the goroutine ends and its locals are gone.
\* A Conversation that neither the index nor a running goroutine refers to is
\* garbage; its fields are zeroed (no code can read them any more).
Done(p) ==
    /\ At(p, "done")
    /\ pc' = [pc EXCEPT ![p] = <<>>]
    /\ op' = [op EXCEPT ![p] = NoOp]
    /\ loc' = [loc EXCEPT ![p] = NoLoc]
    /\ ret' = [ret EXCEPT ![p] = 0]
    /\ out' = [out EXCEPT ![p] = <<>>]
    /\ LET live == {conversations[k] : k \in DOMAIN conversations}
                   \cup UNION {{loc[q].c, loc[q].g, loc[q].e, loc[q].cs, ret[q], op[q].preId} :
                                q \in Procs \ {p}}
       IN  sessions' = [i \in DOMAIN sessions |-> IF i \in live THEN sessions[i] ELSE NoSession]
    /\ UNCHANGED <<config, reg, manager, ctx, conversations, now, endFired, startFired>>

Init ==
    /\ config = DefaultFlows
    /\ reg = DefaultReg
    /\ manager = NewManager(defaultTTL)
    /\ ctx = Background
    /\ conversations = <<>>
    /\ sessions = <<>>
    /\ now = 0
    /\ endFired = [i \in 1..MaxSessions |-> 0]
    /\ startFired = [i \in 1..MaxSessions |-> 0]
    /\ pc = [p \in Procs |-> <<>>]
    /\ op = [p \in Procs |-> NoOp]
    /\ loc = [p \in Procs |-> NoLoc]
    /\ ret = [p \in Procs |-> 0]
    /\ out = [p \in Procs |-> <<>>]

\* time passes
Tick ==
    /\ now < MaxTime
    /\ now' = now + 1
    /\ UNCHANGED <<config, reg, manager, ctx, conversations, sessions, endFired, startFired, pc, op, loc, ret, out>>

---------------------------------------------------------------------------
(* Manager.Start *)

StartEndsNone(key) == {}

\* the sessions Start invokes m.onEnd for: the existing session of the key
StartEnds(key) == IF key \in DOMAIN conversations THEN {conversations[key]} ELSE {}

\* the section of Start that holds m.mu: the end hook for an existing
\* session, NewConversation and the installation in the index
StartLock(p) ==
    /\ At(p, "start_lock")
    /\ LET key == Key(p)
           ttl == IF op[p].ttl <= 0 THEN manager.defaultTTL ELSE op[p].ttl
           id == Len(sessions) + 1
           conv == NewConversation(op[p].user, op[p].chat, op[p].flow, op[p].step, ttl, now)
           ended == StartEnds(key)
       IN  /\ endFired' = [i \in DOMAIN endFired |-> IF i \in ended THEN endFired[i] + 1 ELSE endFired[i]]
           /\ out' = [out EXCEPT ![p] = IF ended = {} THEN @ ELSE Append(@, <<"end", conversations[key]>>)]
           /\ sessions' = Append(sessions, conv)
           /\ conversations' = Put(conversations, key, id)
           /\ loc' = [loc EXCEPT ![p].c = id]
    /\ Return(p)
    /\ UNCHANGED <<config, reg, manager, ctx, now, startFired, op, ret>>

\* m.onStart(ctx, conv); return conv
StartHook(p) ==
    /\ At(p, "start_hook")
    /\ startFired' = [startFired EXCEPT ![loc[p].c] = @ + 1]
    /\ Emit(p, <<"start", loc[p].c>>)
    /\ ret' = [ret EXCEPT ![p] = loc[p].c]
    /\ Return(p)
    /\ UNCHANGED <<config, reg, manager, ctx, conversations, sessions, now, endFired, op, loc>>

---------------------------------------------------------------------------
(* Manager.Get *)

\* conv, ok := m.conversations[key] under the read lock
GetRead(p) ==
    /\ At(p, "get_read")
    /\ IF Key(p) \in DOMAIN conversations
       THEN /\ loc' = [loc EXCEPT ![p].g = conversations[Key(p)]]
            /\ Goto(p, <<"get_expired">>)
            /\ UNCHANGED ret
       ELSE /\ ret' = [ret EXCEPT ![p] = 0]
            /\ Return(p)
            /\ UNCHANGED loc
    /\ UNCHANGED <<config, reg, manager, ctx, conversations, sessions, now, endFired, startFired, op, out>>

\* if conv.IsExpired() { m.End(...); return nil }; return conv
GetExpired(p) ==
    /\ At(p, "get_expired")
    /\ IF IsExpired(sessions[loc[p].g], now)
       THEN /\ ret' = [ret EXCEPT ![p] = 0]
            /\ Goto(p, <<"end_lock", "end_hook">>)
       ELSE /\ ret' = [ret EXCEPT ![p] = loc[p].g]
            /\ Return(p)
    /\ UNCHANGED <<config, reg, manager, ctx, conversations, sessions, now, endFired, startFired, op, loc, out>>

---------------------------------------------------------------------------
(* Manager.End *)

EndLockKeep(p) ==
    /\ At(p, "end_lock")
    /\ loc' = [loc EXCEPT ![p].e = IF Key(p) \in DOMAIN conversations THEN conversations[Key(p)] ELSE 0]
    /\ Return(p)
    /\ UNCHANGED <<config, reg, manager, ctx, conversations, sessions, now, endFired, startFired, op, ret, out>>

\* conv, ok := m.conversations[key]; if ok { delete } under m.mu
EndLock(p) ==
    /\ At(p, "end_lock")
    /\ IF Key(p) \in DOMAIN conversations
       THEN /\ loc' = [loc EXCEPT ![p].e = conversations[Key(p)]]
            /\ conversations' = Delete(conversations, Key(p))
       ELSE /\ loc' = [loc EXCEPT ![p].e = 0]
            /\ UNCHANGED conversations
    /\ Return(p)
    /\ UNCHANGED <<config, reg, manager, ctx, sessions, now, endFired, startFired, op, ret, out>>

\* if ok && m.onEnd != nil { m.onEnd(ctx, conv) }
EndHook(p) ==
    /\ At(p, "end_hook")
    /\ IF loc[p].e # 0
       THEN /\ endFired' = [endFired EXCEPT ![loc[p].e] = @ + 1]
            /\ Emit(p, <<"end", loc[p].e>>)
       ELSE UNCHANGED <<endFired, out>>
    /\ Return(p)
    /\ UNCHANGED <<config, reg, manager, ctx, conversations, sessions, now, startFired, op, loc, ret>>

---------------------------------------------------------------------------
(* Manager.ChangeStep *)

\* conv := m.Get(...); if conv == nil { return }; oldStep := conv.StepID
ChangeStepOld(p) ==
    /\ At(p, "cs_old")
    /\ IF ret[p] = 0
       THEN /\ Return(p)
            /\ UNCHANGED loc
       ELSE /\ loc' = [loc EXCEPT ![p].cs = ret[p], ![p].old = sessions[ret[p]].StepID]
            /\ Goto(p, <<"cs_set", "cs_hook">>)
    /\ UNCHANGED <<config, reg, manager, ctx, conversations, sessions, now, endFired, startFired, op, ret, out>>

SetStep(c, stepID) == [c EXCEPT !.StepID = stepID, !.prior = c.StepID]

\* conv.SetStep(newStep)
ChangeStepSet(p) ==
    /\ At(p, "cs_set")
    /\ sessions' = [sessions EXCEPT ![loc[p].cs] = SetStep(@, loc[p].new)]
    /\ Return(p)
    /\ UNCHANGED <<config, reg, manager, ctx, conversations, now, endFired, startFired, op, loc, ret, out>>

\* m.onStepChange(ctx, conv, oldStep, newStep)
ChangeStepHook(p) ==
    /\ At(p, "cs_hook")
    /\ Emit(p, <<"step", loc[p].cs, loc[p].old, loc[p].new>>)
    /\ Return(p)
    /\ UNCHANGED <<config, reg, manager, ctx, conversations, sessions, now, endFired, startFired, op, loc, ret>>

---------------------------------------------------------------------------
(* Manager.Cleanup *)

ExpiredKeysNone(t) == {}

\* the keys whose session conv.IsExpired() reports expired at time t
ExpiredKeys(t) == {k \in DOMAIN conversations : IsExpired(sessions[conversations[k]], t)}

\* the whole sweep runs under m.mu: for every expired session the end hook,
\* then the delete; the count is returned
Cleanup(p) ==
    /\ At(p, "cleanup")
    /\ LET gone == ExpiredKeys(now)
           ids == {conversations[k] : k \in gone}
       IN  /\ endFired' = [i \in DOMAIN endFired |-> IF i \in ids THEN endFired[i] + 1 ELSE endFired[i]]
           /\ conversations' = [k \in DOMAIN conversations \ gone |-> conversations[k]]
           /\ ret' = [ret EXCEPT ![p] = Cardinality(gone)]
           /\ Emit(p, <<"swept", ids>>)
    /\ Return(p)
    /\ UNCHANGED <<config, reg, manager, ctx, sessions, now, startFired, op, loc>>

---------------------------------------------------------------------------
(* Calls of the Manager's API *)

\* (the model creates at most MaxSessions Conversation objects)
CallStart(p) ==
    /\ Len(sessions) + Cardinality({q \in Procs : At(q, "start_lock")}) < MaxSessions
    /\ \E u \in UserIDs, ch \in ChatIDs, ttl \in TTLs :
          Begin(p, [NoOp EXCEPT !.name = "Start", !.user = u, !.chat = ch, !.flow = "F",
                                !.step = "A", !.ttl = ttl], <<"start_lock", "start_hook">>)

CallGet(p) ==
    \E u \in UserIDs, ch \in ChatIDs :
        Begin(p, [NoOp EXCEPT !.name = "Get", !.user = u, !.chat = ch], <<"get_read">>)

CallEnd(p) ==
    \E u \in UserIDs, ch \in ChatIDs :
        Begin(p, [NoOp EXCEPT !.name = "End", !.user = u, !.chat = ch], <<"end_lock", "end_hook">>)

CallCleanup(p) ==
    Begin(p, [NoOp EXCEPT !.name = "Cleanup"], <<"cleanup">>)

---------------------------------------------------------------------------
(* Wrapper.StartConversation *)

FlowArgs == {"F", "X"}

\* the senders of inbound events: one the auth predicate allows, one it rejects
Senders == {1, 7}

StartConversationAnyway(p) ==
    /\ At(p, "sc_flow")
    /\ LET flow == GetFlow(config, op[p].flow)
       IN  IF flow = NoStep
           THEN /\ Emit(p, <<"error">>)
                /\ Goto(p, <<"start_lock", "start_hook">>)
                /\ UNCHANGED op
           ELSE /\ op' = [op EXCEPT ![p].step = flow.InitialStep, ![p].ttl = flow.TTL]
                /\ Goto(p, <<"start_lock", "start_hook">>)
                /\ UNCHANGED out
    /\ UNCHANGED <<config, reg, manager, ctx, conversations, sessions, now, endFired, startFired, loc, ret>>

\* flow := w.config.GetFlow(flowID); nil: return an error; otherwise
\* convManager.Start(..., flowID, flow.InitialStep, flow.TTL)
StartConversation(p) ==
    /\ At(p, "sc_flow")
    /\ LET flow == GetFlow(config, op[p].flow)
       IN  IF flow = NoStep
           THEN /\ Emit(p, <<"error">>)
                /\ Return(p)
                /\ UNCHANGED op
           ELSE /\ op' = [op EXCEPT ![p].step = flow.InitialStep, ![p].ttl = flow.TTL]
                /\ Goto(p, <<"start_lock", "start_hook">>)
                /\ UNCHANGED out
    /\ UNCHANGED <<config, reg, manager, ctx, conversations, sessions, now, endFired, startFired, loc, ret>>

CallStartConversation(p) ==
    /\ Len(sessions) + Cardinality({q \in Procs : At(q, "start_lock") \/ At(q, "sc_flow")}) < MaxSessions
    /\ \E u \in Senders, ch \in ChatIDs, f \in FlowArgs :
          Begin(p, Arrival([NoOp EXCEPT !.name = "StartConversation", !.user = u, !.chat = ch,
                                        !.flow = f]), <<"sc_flow">>)

---------------------------------------------------------------------------
(* Router: text messages *)

AcceptsText(step) == step.InputType = "text" \/ step.InputType = "any"

\* handleMessage: the authentication check, then convManager.Get
HandleMessage(p) ==
    /\ At(p, "hm_auth")
    /\ IF ~CheckAuth(op[p].user) THEN Return(p) ELSE Goto(p, <<"get_read", "hm_conv">>)
    /\ UNCHANGED <<config, reg, manager, ctx, conversations, sessions, now, endFired, startFired, op, loc, ret, out>>

\* handleMessage after Get: the default message handler when c == nil,
\* otherwise handleConversationMessage up to the input kind check
HandleConversationMessage(p) ==
    /\ At(p, "hm_conv")
    /\ IF ret[p] = 0
       THEN /\ IF reg.messageHandler THEN Emit(p, <<"messageHandler">>) ELSE UNCHANGED out
            /\ Return(p)
            /\ UNCHANGED loc
       ELSE LET c == sessions[ret[p]]
                step == GetStep(config, c.FlowID, c.StepID)
            IN  /\ UNCHANGED out
                /\ IF step = NoStep
                   THEN Return(p) /\ loc' = [loc EXCEPT ![p].c = ret[p]]
                   ELSE IF ~AcceptsText(step)
                   THEN Return(p) /\ loc' = [loc EXCEPT ![p].c = ret[p]]
                   ELSE /\ loc' = [loc EXCEPT ![p].c = ret[p], ![p].step = step]
                        /\ Goto(p, <<"hcm_validate">>)
    /\ UNCHANGED <<config, reg, manager, ctx, conversations, sessions, now, endFired, startFired, op, ret>>

HcmValidateContinue(p) ==
    /\ At(p, "hcm_validate")
    /\ LET err == ValidateInput(config, sessions[loc[p].c], op[p].input)
       IN  IF err.failed THEN Emit(p, <<"send", err.msg>>) ELSE UNCHANGED out
    /\ Goto(p, <<"hcm_store">>)
    /\ UNCHANGED <<config, reg, manager, ctx, conversations, sessions, now, endFired, startFired, op, loc, ret>>

\* if err := r.flowEngine.ValidateInput(c, input); err != nil { SendMessage; return }
HcmValidate(p) ==
    /\ At(p, "hcm_validate")
    /\ LET err == ValidateInput(config, sessions[loc[p].c], op[p].input)
       IN  IF err.failed
           THEN Emit(p, <<"send", err.msg>>) /\ Return(p)
           ELSE UNCHANGED out /\ Goto(p, <<"hcm_store">>)
    /\ UNCHANGED <<config, reg, manager, ctx, conversations, sessions, now, endFired, startFired, op, loc, ret>>

Set(c, key, value) == [c EXCEPT !.Data = Put(c.Data, key, value)]

\* if step.StoreAs != "" { c.Set(step.StoreAs, input) }; the read of c.StepID
\* that is AddHistory's first argument
HcmStore(p) ==
    /\ At(p, "hcm_store")
    /\ sessions' = [sessions EXCEPT ![loc[p].c] =
                       IF loc[p].step.StoreAs # <<>> THEN Set(@, loc[p].step.StoreAs, op[p].input) ELSE @]
    /\ loc' = [loc EXCEPT ![p].sid = sessions[loc[p].c].StepID]
    /\ Goto(p, <<"hcm_history">>)
    /\ UNCHANGED <<config, reg, manager, ctx, conversations, now, endFired, startFired, op, ret, out>>

AddHistoryRefresh(c, stepID, input) ==
    [c EXCEPT !.History = Append(c.History, [StepID |-> stepID, Input |-> input]),
              !.ExpiresAt = now + config[c.FlowID].TTL]

AddHistoryFront(c, stepID, input) ==
    [c EXCEPT !.History = <<[StepID |-> stepID, Input |-> input]>> \o c.History]

AddHistory(c, stepID, input) ==
    [c EXCEPT !.History = Append(c.History, [StepID |-> stepID, Input |-> input])]

HcmHistoryContinue(p) ==
    /\ At(p, "hcm_history")
    /\ sessions' = [sessions EXCEPT ![loc[p].c] = AddHistory(@, loc[p].sid, op[p].input)]
    /\ out' = [out EXCEPT ![p] = @ \o <<<<"delete">>>> \o
                  (IF loc[p].step.OnComplete \in stepHandlers
                   THEN <<<<"handler", loc[p].step.OnComplete>>>> ELSE <<>>)]
    /\ Goto(p, <<"hcm_next">>)
    /\ UNCHANGED <<config, reg, manager, ctx, conversations, now, endFired, startFired, op, loc, ret>>

\* c.AddHistory(c.StepID, input); DeleteMessage; then the completion handler
\* of the step, if it names one, and return
HcmHistory(p) ==
    /\ At(p, "hcm_history")
    /\ sessions' = [sessions EXCEPT ![loc[p].c] = AddHistory(@, loc[p].sid, op[p].input)]
    /\ IF loc[p].step.OnComplete # ""
       THEN /\ out' = [out EXCEPT ![p] = @ \o <<<<"delete">>>> \o
                          (IF loc[p].step.OnComplete \in stepHandlers
                           THEN <<<<"handler", loc[p].step.OnComplete>>>> ELSE <<>>)]
            /\ Return(p)
       ELSE /\ Emit(p, <<"delete">>)
            /\ Goto(p, <<"hcm_next">>)
    /\ UNCHANGED <<config, reg, manager, ctx, conversations, now, endFired, startFired, op, loc, ret>>

HcmNextRedisplay(p) ==
    /\ At(p, "hcm_next")
    /\ LET nextStep == DetermineNextStep(config, sessions[loc[p].c], op[p].input)
       IN  IF nextStep = ""
           THEN Goto(p, <<"display">>) /\ UNCHANGED loc
           ELSE /\ loc' = [loc EXCEPT ![p].new = nextStep, ![p].chat = sessions[loc[p].c].ChatID]
                /\ Goto(p, <<"get_read", "cs_old", "display">>)
    /\ UNCHANGED <<config, reg, manager, ctx, conversations, sessions, now, endFired, startFired, op, ret, out>>

\* nextStep := DetermineNextStep(ctx, c, input); if nextStep != "" {
\* ChangeStep(ctx, msg.From.ID, c.ChatID, nextStep); displayStep(ctx, c) }
HcmNext(p) ==
    /\ At(p, "hcm_next")
    /\ LET nextStep == DetermineNextStep(config, sessions[loc[p].c], op[p].input)
       IN  IF nextStep = ""
           THEN Return(p) /\ UNCHANGED loc
           ELSE /\ loc' = [loc EXCEPT ![p].new = nextStep, ![p].chat = sessions[loc[p].c].ChatID]
                /\ Goto(p, <<"get_read", "cs_old", "display">>)
    /\ UNCHANGED <<config, reg, manager, ctx, conversations, sessions, now, endFired, startFired, op, ret, out>>

\* displayStep(ctx, c): the prompt of the step c is on
DisplayStep(p) ==
    /\ At(p, "display")
    /\ Emit(p, <<"display", loc[p].c, sessions[loc[p].c].StepID>>)
    /\ Return(p)
    /\ UNCHANGED <<config, reg, manager, ctx, conversations, sessions, now, endFired, startFired, op, loc, ret>>

\* (a session of the model collects at most MaxHist history entries)
CallText(p) ==
    /\ \A i \in DOMAIN sessions : Len(sessions[i].History) < MaxHist
    /\ \E u \in Senders, ch \in ChatIDs, input \in TextInputs :
          Begin(p, Arrival([NoOp EXCEPT !.name = "Text", !.user = u, !.chat = ch,
                                        !.input = input]), <<"hm_auth">>)

---------------------------------------------------------------------------
(* Router: callback queries *)

\* the callback data of the model are the navigation tokens
CallbackData == {CallbackMainMenu, CallbackBack, CallbackCancel}

HandleCallbackExactFirst(p) ==
    /\ At(p, "hc_auth")
    /\ IF ~CheckAuth(op[p].user)
       THEN Emit(p, <<"answer">>) /\ Return(p)
       ELSE IF op[p].data \in reg.callbackHandlers
       THEN Emit(p, <<"callback", op[p].data>>) /\ Return(p)
       ELSE IF op[p].data = CallbackMainMenu
       THEN UNCHANGED out /\ Goto(p, <<"mm">>)
       ELSE IF op[p].data \in {CallbackBack, CallbackCancel}
       THEN Emit(p, <<"answer">>) /\ Goto(p, <<"get_read", "hb_prev">>)
       ELSE IF \E prefix \in reg.prefixHandlers : HasPrefix(op[p].data, prefix)
       THEN /\ \E prefix \in reg.prefixHandlers :
                  HasPrefix(op[p].data, prefix) /\ Emit(p, <<"prefix", prefix>>)
            /\ Return(p)
       ELSE UNCHANGED out /\ Goto(p, <<"get_read", "hc_conv">>)
    /\ UNCHANGED <<config, reg, manager, ctx, conversations, sessions, now, endFired, startFired, op, loc, ret>>

\* handleCallback: the authentication check, the navigation switch, the
\* exact-match handler, a prefix handler (the first matching prefix in the
\* iteration order of the map, which is any of them), otherwise
\* convManager.Get; handleBack up to convManager.Get
HandleCallback(p) ==
    /\ At(p, "hc_auth")
    /\ IF ~CheckAuth(op[p].user)
       THEN Emit(p, <<"answer">>) /\ Return(p)
       ELSE IF op[p].data = CallbackMainMenu
       THEN UNCHANGED out /\ Goto(p, <<"mm">>)
       ELSE IF op[p].data \in {CallbackBack, CallbackCancel}
       THEN Emit(p, <<"answer">>) /\ Goto(p, <<"get_read", "hb_prev">>)
       ELSE IF op[p].data \in reg.callbackHandlers
       THEN Emit(p, <<"callback", op[p].data>>) /\ Return(p)
       ELSE IF \E prefix \in reg.prefixHandlers : HasPrefix(op[p].data, prefix)
       THEN /\ \E prefix \in reg.prefixHandlers :
                  HasPrefix(op[p].data, prefix) /\ Emit(p, <<"prefix", prefix>>)
            /\ Return(p)
       ELSE UNCHANGED out /\ Goto(p, <<"get_read", "hc_conv">>)
    /\ UNCHANGED <<config, reg, manager, ctx, conversations, sessions, now, endFired, startFired, op, loc, ret>>

HandleMainMenuKeep(p) ==
    /\ At(p, "mm")
    /\ Emit(p, <<"answer">>)
    /\ Goto(p, <<"mm_internal">>)
    /\ UNCHANGED <<config, reg, manager, ctx, conversations, sessions, now, endFired, startFired, op, loc, ret>>

\* handleMainMenu: AnswerCallback, then convManager.End
HandleMainMenu(p) ==
    /\ At(p, "mm")
    /\ Emit(p, <<"answer">>)
    /\ Goto(p, <<"end_lock", "end_hook", "mm_internal">>)
    /\ UNCHANGED <<config, reg, manager, ctx, conversations, sessions, now, endFired, startFired, op, loc, ret>>

\* handleMainMenu: the handler registered under main_menu_internal
MainMenuInternal(p) ==
    /\ At(p, "mm_internal")
    /\ IF MainMenuInternalKey \in reg.callbackHandlers THEN Emit(p, <<"main_menu">>) ELSE UNCHANGED out
    /\ Return(p)
    /\ UNCHANGED <<config, reg, manager, ctx, conversations, sessions, now, endFired, startFired, op, loc, ret>>

\* handleBack after Get
HandleBack(p) ==
    /\ At(p, "hb_prev")
    /\ IF ret[p] = 0
       THEN Goto(p, <<"mm">>) /\ UNCHANGED loc
       ELSE LET prevStep == GetPreviousStep(sessions[ret[p]])
            IN  IF prevStep # ""
                THEN /\ loc' = [loc EXCEPT ![p].c = ret[p], ![p].new = prevStep]
                     /\ Goto(p, <<"get_read", "cs_old", "display">>)
                ELSE /\ loc' = [loc EXCEPT ![p].c = ret[p]]
                     /\ Goto(p, <<"end_lock", "end_hook", "mm">>)
    /\ UNCHANGED <<config, reg, manager, ctx, conversations, sessions, now, endFired, startFired, op, ret, out>>

CallCallback(p) ==
    \E u \in Senders, ch \in ChatIDs, d \in CallbackData :
        Begin(p, Arrival([NoOp EXCEPT !.name = "Callback", !.user = u, !.chat = ch, !.data = d]),
              <<"hc_auth">>)

---------------------------------------------------------------------------
(* Specifications *)

\* one inbound event, call of StartConversation or sweep at a time
RouterNext ==
    \/ Tick
    \/ CallStartConversation(Handler)
    \/ CallText(Handler)
    \/ CallCallback(Handler)
    \/ CallCleanup(Handler)
    \/ StartConversation(Handler)
    \/ StartLock(Handler)
    \/ StartHook(Handler)
    \/ GetRead(Handler)
    \/ GetExpired(Handler)
    \/ EndLock(Handler)
    \/ EndHook(Handler)
    \/ ChangeStepOld(Handler)
    \/ ChangeStepSet(Handler)
    \/ ChangeStepHook(Handler)
    \/ Cleanup(Handler)
    \/ HandleMessage(Handler)
    \/ HandleConversationMessage(Handler)
    \/ HcmValidate(Handler)
    \/ HcmStore(Handler)
    \/ HcmHistory(Handler)
    \/ HcmNext(Handler)
    \/ DisplayStep(Handler)
    \/ HandleCallback(Handler)
    \/ HandleMainMenu(Handler)
    \/ MainMenuInternal(Handler)
    \/ HandleBack(Handler)
    \/ Done(Handler)

SpecRouter == Init /\ [][RouterNext]_vars

\* concurrent callers of the Manager
Next ==
    \/ Tick
    \/ \E p \in Procs : CallStart(p)
    \/ \E p \in Procs : CallGet(p)
    \/ \E p \in Procs : CallEnd(p)
    \/ \E p \in Procs : CallCleanup(p)
    \/ \E p \in Procs : StartLock(p)
    \/ \E p \in Procs : StartHook(p)
    \/ \E p \in Procs : GetRead(p)
    \/ \E p \in Procs : GetExpired(p)
    \/ \E p \in Procs : EndLock(p)
    \/ \E p \in Procs : EndHook(p)
    \/ \E p \in Procs : Cleanup(p)
    \/ \E p \in Procs : Done(p)

Spec == Init /\ [][Next]_vars

---------------------------------------------------------------------------
(* DetermineNextStep over bounded configurations *)

sNIs5 == sN \o sEq \o Q(s5)
sNNot5 == sN \o sNe \o Q(s5)

BranchConditions == {sInput \o sEq \o Q(sA), sInput \o sEq \o Q(sB), <<>>, sNIs5, sNNot5}

BranchConfigs == [Condition : BranchConditions, NextStep : {"C", "D"}]

BranchLists == UNION {[1..n -> BranchConfigs] : n \in 0..MaxBranches}

\* a flow F whose step A has the branches bl and the explicit next step ns
EngineFlows(bl, ns) ==
    [F |-> [InitialStep |-> "A", TTL |-> 0, Steps |->
        [A |-> [InputType |-> "text", Validation |-> NoValidation, StoreAs |-> <<>>,
                NextStep |-> ns, Branches |-> bl, OnComplete |-> ""]]]]

EngineInit ==
    /\ \E bl \in BranchLists, ns \in {"", "B"} : config = EngineFlows(bl, ns)
    /\ \E ev \in Evaluators : reg = [DefaultReg EXCEPT !.conditionEvaluator = ev]
    /\ manager = NewManager(defaultTTL)
    /\ ctx = Background
    /\ \E f \in {"F", "X"}, st \in {"A", "Z"}, d \in {<<>>, [k \in {sN} |-> s5]} :
          sessions = << [NoSession EXCEPT !.UserID = 1, !.ChatID = 1, !.FlowID = f, !.StepID = st,
                                          !.Data = d, !.ExpiresAt = MaxTime] >>
    /\ conversations = [k \in {conversationKey(1, 1)} |-> 1]
    /\ now = 0
    /\ endFired = [i \in 1..MaxSessions |-> 0]
    /\ startFired = [i \in 1..MaxSessions |-> 0]
    /\ pc = [p \in Procs |-> <<>>]
    /\ op = [p \in Procs |-> NoOp]
    /\ loc = [p \in Procs |-> NoLoc]
    /\ ret = [p \in Procs |-> 0]
    /\ out = [p \in Procs |-> <<>>]

\* nextStep := r.flowEngine.DetermineNextStep(ctx, c, input) for the session
\* of the sender
CallDetermineNextStep(p) ==
    /\ Idle(p)
    /\ \E input \in TextInputs :
          /\ op' = [op EXCEPT ![p] = Arrival([NoOp EXCEPT !.name = "DetermineNextStep", !.user = 1,
                                                          !.chat = 1, !.input = input])]
          /\ loc' = [loc EXCEPT ![p].c = 1, ![p].new = DetermineNextStep(config, sessions[1], input)]
    /\ pc' = [pc EXCEPT ![p] = <<"done">>]
    /\ UNCHANGED <<config, reg, manager, ctx, conversations, sessions, now, endFired, startFired, ret, out>>

EngineNext ==
    \/ CallDetermineNextStep(Handler)
    \/ Done(Handler)

SpecEngine == EngineInit /\ [][EngineNext]_vars

---------------------------------------------------------------------------
(* EvaluateCondition over bounded conditions and session data *)

sM == <<"m">>
sAEqB == <<"a", "=", "=", "b">>

\* <key> == "value" and <key> != "value"
Comparisons == [key : {sN, sData \o sN, sM}, op : {sEq, sNe}, value : {s5, sA, sAEqB}]

Render(e) == e.key \o e.op \o Q(e.value)

\* expressions of neither form
OtherExpressions == {sN, sN \o <<" ", ">", " ">> \o s5}

Conditions == {<<>>} \cup {Render(e) : e \in Comparisons} \cup OtherExpressions

\* Conversation.Data: n missing, a string, or the int 5
DataSets == {<<>>} \cup {[k \in {sN} |-> v] : v \in {s5, sAEqB} \cup NonStrings}

ConditionInit ==
    /\ config = DefaultFlows
    /\ \E ev \in Evaluators : reg = [DefaultReg EXCEPT !.conditionEvaluator = ev]
    /\ manager = NewManager(defaultTTL)
    /\ ctx = Background
    /\ \E d \in DataSets :
          sessions = << [NoSession EXCEPT !.UserID = 1, !.ChatID = 1, !.FlowID = "F", !.StepID = "A",
                                          !.Data = d, !.ExpiresAt = MaxTime] >>
    /\ conversations = [k \in {conversationKey(1, 1)} |-> 1]
    /\ now = 0
    /\ endFired = [i \in 1..MaxSessions |-> 0]
    /\ startFired = [i \in 1..MaxSessions |-> 0]
    /\ pc = [p \in Procs |-> <<>>]
    /\ op = [p \in Procs |-> NoOp]
    /\ loc = [p \in Procs |-> NoLoc]
    /\ ret = [p \in Procs |-> 0]
    /\ out = [p \in Procs |-> <<>>]

\* e.EvaluateCondition(ctx, conv, condition) for the session of the sender
CallEvaluateCondition(p) ==
    /\ Idle(p)
    /\ \E condition \in Conditions :
          /\ op' = [op EXCEPT ![p] = Arrival([NoOp EXCEPT !.name = "EvaluateCondition", !.user = 1,
                                                          !.chat = 1, !.cond = condition])]
          /\ loc' = [loc EXCEPT ![p].c = 1, ![p].ok = EvaluateCondition(sessions[1], condition)]
    /\ pc' = [pc EXCEPT ![p] = <<"done">>]
    /\ UNCHANGED <<config, reg, manager, ctx, conversations, sessions, now, endFired, startFired, ret, out>>

ConditionNext ==
    \/ CallEvaluateCondition(Handler)
    \/ Done(Handler)

SpecCondition == ConditionInit /\ [][ConditionNext]_vars

---------------------------------------------------------------------------
(* Router: dispatch of commands, callbacks, text, photos and documents *)

AcceptsCallbackAlways(step) == TRUE

\* step.InputType != callback && step.InputType != any: return
AcceptsCallback(step) == step.InputType = "callback" \/ step.InputType = "any"

sFileID == <<"_", "f", "i", "l", "e", "_", "i", "d">>
sFileName == <<"_", "f", "i", "l", "e", "_", "n", "a", "m", "e">>
sPhoto == <<"p", "h", "o", "t", "o", ":">>
sDoc == <<"d", "o", "c", ":">>

\* ExecuteStepHandler: the invocation of the handler registered under the
\* name, nothing for an unregistered name
ExecuteStepHandler(handlerName) ==
    IF handlerName \in stepHandlers THEN <<<<"handler", handlerName>>>> ELSE <<>>

\* the tail that the conversation handlers of callbacks, photos and documents
\* share: c is the session after Set and AddHistory, input the value handed
\* to DetermineNextStep, events what the handler emitted before
Complete(p, id, c, step, input, events) ==
    /\ sessions' = [sessions EXCEPT ![id] = c]
    /\ IF step.OnComplete # ""
       THEN /\ out' = [out EXCEPT ![p] = @ \o events \o ExecuteStepHandler(step.OnComplete)]
            /\ Return(p)
            /\ loc' = [loc EXCEPT ![p].c = id, ![p].step = step]
       ELSE LET nextStep == DetermineNextStep(config, c, input)
            IN  /\ out' = [out EXCEPT ![p] = @ \o events]
                /\ IF nextStep = ""
                   THEN Return(p) /\ loc' = [loc EXCEPT ![p].c = id, ![p].step = step]
                   ELSE /\ loc' = [loc EXCEPT ![p].c = id, ![p].step = step, ![p].new = nextStep,
                                              ![p].chat = c.ChatID]
                        /\ Goto(p, <<"get_read", "cs_old", "display">>)

\* handleCallback after Get: the acknowledgement when c == nil, otherwise
\* handleConversationCallback up to ChangeStep
HandleConversationCallback(p) ==
    /\ At(p, "hc_conv")
    /\ IF ret[p] = 0
       THEN /\ Emit(p, <<"answer">>)
            /\ Return(p)
            /\ UNCHANGED <<sessions, loc>>
       ELSE LET c == sessions[ret[p]]
                step == GetStep(config, c.FlowID, c.StepID)
                stored == IF step.StoreAs # <<>> THEN Set(c, step.StoreAs, op[p].data) ELSE c
            IN  IF step = NoStep \/ ~AcceptsCallback(step)
                THEN /\ Emit(p, <<"answer">>)
                     /\ Return(p)
                     /\ loc' = [loc EXCEPT ![p].c = ret[p]]
                     /\ UNCHANGED sessions
                ELSE Complete(p, ret[p], AddHistory(stored, c.StepID, op[p].data), step, op[p].data,
                              <<<<"answer">>>>)
    /\ UNCHANGED <<config, reg, manager, ctx, conversations, now, endFired, startFired, op, ret>>

\* handlePhoto: the authentication check, then convManager.Get
HandlePhoto(p) ==
    /\ At(p, "hp_auth")
    /\ IF ~CheckAuth(op[p].user) THEN Return(p) ELSE Goto(p, <<"get_read", "hp_conv">>)
    /\ UNCHANGED <<config, reg, manager, ctx, conversations, sessions, now, endFired, startFired, op, loc, ret, out>>

\* handlePhoto after Get: handleConversationPhoto up to ChangeStep when the
\* step of the session expects a photo, otherwise the photo handler
HandleConversationPhoto(p) ==
    /\ At(p, "hp_conv")
    /\ LET c == sessions[ret[p]]
           step == GetStep(config, c.FlowID, c.StepID)
           fileID == op[p].input
           stored == IF step.StoreAs # <<>>
                     THEN Set(Set(c, step.StoreAs, fileID), step.StoreAs \o sFileID, fileID)
                     ELSE c
       IN  IF ret[p] # 0 /\ step # NoStep /\ step.InputType = "photo"
           THEN Complete(p, ret[p], AddHistory(stored, c.StepID, sPhoto \o fileID), step, fileID, <<>>)
           ELSE /\ IF reg.photoHandler THEN Emit(p, <<"photoHandler">>) ELSE UNCHANGED out
                /\ Return(p)
                /\ loc' = [loc EXCEPT ![p].c = ret[p]]
                /\ UNCHANGED sessions
    /\ UNCHANGED <<config, reg, manager, ctx, conversations, now, endFired, startFired, op, ret>>

\* handleDocument: the authentication check, then convManager.Get
HandleDocument(p) ==
    /\ At(p, "hd_auth")
    /\ IF ~CheckAuth(op[p].user) THEN Return(p) ELSE Goto(p, <<"get_read", "hd_conv">>)
    /\ UNCHANGED <<config, reg, manager, ctx, conversations, sessions, now, endFired, startFired, op, loc, ret, out>>

\* handleDocument after Get: handleConversationDocument up to ChangeStep when
\* the step of the session expects a document, otherwise the document handler
HandleConversationDocument(p) ==
    /\ At(p, "hd_conv")
    /\ LET c == sessions[ret[p]]
           step == GetStep(config, c.FlowID, c.StepID)
           fileID == op[p].input
           fileName == op[p].data
           stored == IF step.StoreAs # <<>>
                     THEN Set(Set(Set(c, step.StoreAs, fileID), step.StoreAs \o sFileID, fileID),
                              step.StoreAs \o sFileName, fileName)
                     ELSE c
       IN  IF ret[p] # 0 /\ step # NoStep /\ step.InputType = "document"
           THEN Complete(p, ret[p], AddHistory(stored, c.StepID, sDoc \o fileID), step, fileID, <<>>)
           ELSE /\ IF reg.documentHandler THEN Emit(p, <<"documentHandler">>) ELSE UNCHANGED out
                /\ Return(p)
                /\ loc' = [loc EXCEPT ![p].c = ret[p]]
                /\ UNCHANGED sessions
    /\ UNCHANGED <<config, reg, manager, ctx, conversations, now, endFired, startFired, op, ret>>

\* the command of a message text: parts[0] of SplitN(text, " ", 2) without
\* the leading / and without the @botname suffix
Command(text) ==
    LET command == TrimPrefix(Split(text, <<" ">>)[1], <<"/">>)
        idx == Index(command, <<"@">>)
    IN  IF idx # 0 THEN SubStr(command, 1, idx - 1) ELSE command

\* handleCommand: the authentication check, then the command handler
HandleCommand(p) ==
    /\ At(p, "cmd")
    /\ IF CheckAuth(op[p].user) /\ Command(op[p].input) \in reg.commandHandlers
       THEN Emit(p, <<"command", Command(op[p].input)>>)
       ELSE UNCHANGED out
    /\ Return(p)
    /\ UNCHANGED <<config, reg, manager, ctx, conversations, sessions, now, endFired, startFired, op, loc, ret>>

\* FlowConfig.Validate (the flow's ID is its key in Config.Flows)
Validate(flow) ==
    /\ flow.InitialStep # ""
    /\ DOMAIN flow.Steps # {}
    /\ flow.InitialStep \in DOMAIN flow.Steps

sF == <<"f">>

\* flow F: A (text, stored as n; a -> P, b -> D, otherwise B); B accepts
\* callbacks only and continues with step Z, which the flow does not define;
\* P expects a photo, D a document; H hands over to the registered completion
\* handler h, G names the completion handler g, which is not registered
DispatchFlows ==
    [F |-> [InitialStep |-> "A", TTL |-> 1, Steps |->
        [A |-> [InputType |-> "text", Validation |-> NoValidation, StoreAs |-> sN,
                NextStep |-> "B",
                Branches |-> << [Condition |-> sInput \o sEq \o Q(sA), NextStep |-> "P"],
                                [Condition |-> sInput \o sEq \o Q(sB), NextStep |-> "D"] >>,
                OnComplete |-> ""],
         B |-> [InputType |-> "callback", Validation |-> NoValidation, StoreAs |-> sC,
                NextStep |-> "Z", Branches |-> <<>>, OnComplete |-> ""],
         P |-> [InputType |-> "photo", Validation |-> NoValidation, StoreAs |-> sF,
                NextStep |-> "H", Branches |-> <<>>, OnComplete |-> ""],
         D |-> [InputType |-> "document", Validation |-> NoValidation, StoreAs |-> sF,
                NextStep |-> "G", Branches |-> <<>>, OnComplete |-> ""],
         H |-> [InputType |-> "any", Validation |-> NoValidation, StoreAs |-> sC,
                NextStep |-> "A", Branches |-> <<>>, OnComplete |-> "h"],
         G |-> [InputType |-> "any", Validation |-> NoValidation, StoreAs |-> sC,
                NextStep |-> "A", Branches |-> <<>>, OnComplete |-> "g"]]]]

sX == <<"x">>
sXColon == <<"x", ":">>
sX1 == <<"x", ":", "1">>
sX2 == <<"x", ":", "2">>
sY == <<"y">>
sGo == <<"g", "o">>

\* the callback data of the dispatch: the navigation tokens, x:1 (an exact
\* and two prefix handlers), x:2 (two prefix handlers), y (no handler)
DispatchData == CallbackData \cup {sX1, sX2, sY}

\* message texts that start with /
Commands == {<<"/">> \o sGo, <<"/">> \o sGo \o <<"@", "b", " ", "5">>, <<"/", "n", "o">>}

FileIDs == {<<"f", "1">>}
FileNames == {<<"r">>}

\* the registrations of an application: RegisterCommand("/go"),
\* RegisterCallback("x:1"), RegisterCallback("back"),
\* RegisterCallbackPrefix("x"), RegisterCallbackPrefix("x:") and the three
\* default handlers
AppReg ==
    [DefaultReg EXCEPT !.commandHandlers = {TrimPrefix(<<"/">> \o sGo, <<"/">>)},
                       !.callbackHandlers = @ \cup {sX1, CallbackBack},
                       !.prefixHandlers = @ \cup {sX, sXColon},
                       !.photoHandler = TRUE,
                       !.documentHandler = TRUE]

\* NewBot and NewRouter: no auth predicate, nothing registered
BareReg ==
    [authFunc |-> FALSE,
     commandHandlers |-> {},
     callbackHandlers |-> {},
     prefixHandlers |-> {},
     messageHandler |-> FALSE,
     photoHandler |-> FALSE,
     documentHandler |-> FALSE,
     conditionEvaluator |-> "<nil>",
     validators |-> <<>>]

\* the application's registrations without SetAuthFunc
OpenReg == [AppReg EXCEPT !.authFunc = FALSE]

Regs == {DefaultReg, AppReg, OpenReg, BareReg}

\* the router of a validated configuration, with no session or after
\* StartConversation(owner, 1, "F") for one of the senders
DispatchInit ==
    /\ config = DispatchFlows
    /\ \A f \in DOMAIN config : Validate(config[f])
    /\ reg \in Regs
    /\ manager = NewManager(defaultTTL)
    /\ ctx = Background
    /\ \/ /\ conversations = <<>>
          /\ sessions = <<>>
          /\ startFired = [i \in 1..MaxSessions |-> 0]
       \/ \E owner \in Senders :
             /\ conversations = [k \in {conversationKey(owner, 1)} |-> 1]
             /\ sessions = << NewConversation(owner, 1, "F", config.F.InitialStep, config.F.TTL, 0) >>
             /\ startFired = [i \in 1..MaxSessions |-> IF i = 1 THEN 1 ELSE 0]
    /\ now = 0
    /\ endFired = [i \in 1..MaxSessions |-> 0]
    /\ pc = [p \in Procs |-> <<>>]
    /\ op = [p \in Procs |-> NoOp]
    /\ loc = [p \in Procs |-> NoLoc]
    /\ ret = [p \in Procs |-> 0]
    /\ out = [p \in Procs |-> <<>>]

CallCommand(p) ==
    \E u \in Senders, ch \in ChatIDs, text \in Commands :
        Begin(p, Arrival([NoOp EXCEPT !.name = "Command", !.user = u, !.chat = ch, !.input = text]),
              <<"cmd">>)

CallDispatchCallback(p) ==
    /\ \A i \in DOMAIN sessions : Len(sessions[i].History) < MaxHist
    /\ \E u \in Senders, ch \in ChatIDs, d \in DispatchData :
          Begin(p, Arrival([NoOp EXCEPT !.name = "Callback", !.user = u, !.chat = ch, !.data = d]),
                <<"hc_auth">>)

\* a photo message: input is the FileID of the largest photo
CallPhoto(p) ==
    /\ \A i \in DOMAIN sessions : Len(sessions[i].History) < MaxHist
    /\ \E u \in Senders, ch \in ChatIDs, fileID \in FileIDs :
          Begin(p, Arrival([NoOp EXCEPT !.name = "Photo", !.user = u, !.chat = ch, !.input = fileID]),
                <<"hp_auth">>)

\* a document message: input is Document.FileID, data is Document.FileName
CallDocument(p) ==
    /\ \A i \in DOMAIN sessions : Len(sessions[i].History) < MaxHist
    /\ \E u \in Senders, ch \in ChatIDs, fileID \in FileIDs, fileName \in FileNames :
          Begin(p, Arrival([NoOp EXCEPT !.name = "Document", !.user = u, !.chat = ch,
                                        !.input = fileID, !.data = fileName]), <<"hd_auth">>)

\* one inbound event at a time
DispatchNext ==
    \/ Tick
    \/ CallCommand(Handler)
    \/ CallText(Handler)
    \/ CallDispatchCallback(Handler)
    \/ CallPhoto(Handler)
    \/ CallDocument(Handler)
    \/ GetRead(Handler)
    \/ GetExpired(Handler)
    \/ EndLock(Handler)
    \/ EndHook(Handler)
    \/ ChangeStepOld(Handler)
    \/ ChangeStepSet(Handler)
    \/ ChangeStepHook(Handler)
    \/ HandleCommand(Handler)
    \/ HandleMessage(Handler)
    \/ HandleConversationMessage(Handler)
    \/ HcmValidate(Handler)
    \/ HcmStore(Handler)
    \/ HcmHistory(Handler)
    \/ HcmNext(Handler)
    \/ DisplayStep(Handler)
    \/ HandleCallback(Handler)
    \/ HandleConversationCallback(Handler)
    \/ HandleMainMenu(Handler)
    \/ MainMenuInternal(Handler)
    \/ HandleBack(Handler)
    \/ HandlePhoto(Handler)
    \/ HandleConversationPhoto(Handler)
    \/ HandleDocument(Handler)
    \/ HandleConversationDocument(Handler)
    \/ Done(Handler)

SpecDispatch == DispatchInit /\ [][DispatchNext]_vars

---------------------------------------------------------------------------
(* Manager: calls for ids beyond the code points *)

\* user ids of the calls: 1 and two ids above U+10FFFF (the ids that Telegram
\* assigns today are above it)
KeyUserIDs == {1, 1114112, 1114113}

CallKeyStart(p) ==
    /\ Len(sessions) < MaxSessions
    /\ \E u \in KeyUserIDs, ch \in ChatIDs :
          Begin(p, [NoOp EXCEPT !.name = "Start", !.user = u, !.chat = ch, !.flow = "F",
                                !.step = "A", !.ttl = 0], <<"start_lock", "start_hook">>)

CallKeyGet(p) ==
    \E u \in KeyUserIDs, ch \in ChatIDs :
        Begin(p, [NoOp EXCEPT !.name = "Get", !.user = u, !.chat = ch], <<"get_read">>)

CallKeyEnd(p) ==
    \E u \in KeyUserIDs, ch \in ChatIDs :
        Begin(p, [NoOp EXCEPT !.name = "End", !.user = u, !.chat = ch], <<"end_lock", "end_hook">>)

CallKeyChangeStep(p) ==
    \E u \in KeyUserIDs, ch \in ChatIDs, newStep \in {"B", "C"} :
        Begin(p, [NoOp EXCEPT !.name = "ChangeStep", !.user = u, !.chat = ch, !.step = newStep],
              <<"get_read", "cs_old">>)

\* one call of the Manager at a time
KeysNext ==
    \/ Tick
    \/ CallKeyStart(Handler)
    \/ CallKeyGet(Handler)
    \/ CallKeyEnd(Handler)
    \/ CallKeyChangeStep(Handler)
    \/ StartLock(Handler)
    \/ StartHook(Handler)
    \/ GetRead(Handler)
    \/ GetExpired(Handler)
    \/ EndLock(Handler)
    \/ EndHook(Handler)
    \/ ChangeStepOld(Handler)
    \/ ChangeStepSet(Handler)
    \/ ChangeStepHook(Handler)
    \/ Done(Handler)

SpecKeys == Init /\ [][KeysNext]_vars

---------------------------------------------------------------------------
(* Properties *)

Range(f) == {f[x] : x \in DOMAIN f}

Finished(p, name) == At(p, "done") /\ op[p].name = name

Quiet(P) == \A q \in P : Idle(q) \/ At(q, "done")

\* the step p takes leaves the code position label
Takes(p, label) == At(p, label) /\ pc'[p] # pc[p]

\* C1: when Start replaces the session of a key, the end hook of the old
\* session fires in the locked section that installs the new one, the new
\* session has the flow and step passed to Start and empty data and history,
\* the old session leaves the index, and the index never holds a session
\* whose end hook has fired
Thm_C1 ==
    /\ [](\A k \in DOMAIN conversations : endFired[conversations[k]] = 0)
    /\ [][\A p \in Procs :
            Takes(p, "start_lock") /\ Key(p) \in DOMAIN conversations =>
                LET old == conversations[Key(p)]
                    new == conversations'[Key(p)]
                IN  /\ endFired'[old] = endFired[old] + 1
                    /\ new # old
                    /\ old \notin Range(conversations')
                    /\ sessions'[new].FlowID = op[p].flow
                    /\ sessions'[new].StepID = op[p].step
                    /\ sessions'[new].Data = <<>>
                    /\ sessions'[new].History = <<>>]_vars

Wit_C1 ==
    \E p \in Procs :
        /\ At(p, "start_hook") /\ op[p].name = "Start"
        /\ loc[p].c = 2 /\ conversations[Key(p)] = 2
        /\ endFired[1] = 1 /\ sessions[2].StepID = "A" /\ sessions[2].FlowID = "F"

\* C2: a Get whose expiry check finds expires_at elapsed returns none, and
\* time does not run backwards, so every later Get that finds the session
\* does the same; the end hook of a session never fires twice, and it has
\* fired exactly once when a Get that found the session expired has returned
\* and no other operation is in progress
Thm_C2 ==
    /\ [](/\ \A i \in DOMAIN endFired : endFired[i] <= 1
          /\ \A p \in Procs :
                Finished(p, "Get") /\ loc[p].g # 0 =>
                    /\ ret[p] \in {0, loc[p].g}
                    /\ ret[p] = 0 /\ Quiet(Procs \ {p}) => endFired[loc[p].g] = 1)
    /\ [][/\ now' >= now
          /\ sessions' # sessions =>
                \A i \in DOMAIN sessions :
                    sessions'[i].ExpiresAt = sessions[i].ExpiresAt \/ sessions'[i] = NoSession
          /\ \A p \in Procs :
                Takes(p, "get_expired") /\ now > sessions[loc[p].g].ExpiresAt =>
                    /\ ret'[p] = 0
                    /\ Head(pc'[p]) = "end_lock"]_vars

Wit_C2 ==
    \E p, q \in Procs :
        /\ p # q /\ Finished(p, "Get") /\ Finished(q, "Get")
        /\ loc[p].g # 0 /\ loc[p].g = loc[q].g
        /\ ret[p] = 0 /\ ret[q] = 0 /\ endFired[loc[p].g] = 1
        /\ now > sessions[loc[p].g].ExpiresAt

\* C3: the end hook fires at most once per session instance; when no
\* operation is in progress it has fired exactly once for every instance that
\* is no longer in the index and not at all for the indexed ones; an End that
\* finds no session for its key removes nothing and fires no hook
Thm_C3 ==
    /\ [](/\ \A i \in DOMAIN endFired : endFired[i] <= 1
          /\ Quiet(Procs) =>
                \A i \in 1..Len(sessions) :
                    endFired[i] = IF i \in Range(conversations) THEN 0 ELSE 1)
    /\ [][\A p \in Procs :
            /\ Takes(p, "end_lock") /\ Key(p) \notin DOMAIN conversations =>
                  conversations' = conversations /\ loc'[p].e = 0
            /\ Takes(p, "end_hook") /\ loc[p].e = 0 =>
                  endFired' = endFired /\ out' = out]_vars

Wit_C3 ==
    /\ Quiet(Procs)
    /\ Len(sessions) = 2
    /\ endFired[1] = 1 /\ endFired[2] = 1
    /\ conversations = <<>>
    /\ \E p \in Procs : Finished(p, "End") /\ loc[p].e = 0

\* C4: a sweep removes exactly the sessions with expires_at < now, leaves the
\* other index entries and every session untouched, fires the end hook once
\* for each removed session and for no other, and returns the number removed
Thm_C4 ==
    [][\A p \in Procs :
          Takes(p, "cleanup") =>
              LET gone == {k \in DOMAIN conversations : sessions[conversations[k]].ExpiresAt < now}
              IN  /\ DOMAIN conversations' = DOMAIN conversations \ gone
                  /\ \A k \in DOMAIN conversations' : conversations'[k] = conversations[k]
                  /\ sessions' = sessions
                  /\ \A i \in DOMAIN endFired :
                        endFired'[i] = IF i \in {conversations[k] : k \in gone}
                                       THEN endFired[i] + 1 ELSE endFired[i]
                  /\ ret'[p] = Cardinality(gone)]_vars

Wit_C4 ==
    \E p \in Procs :
        /\ Finished(p, "Cleanup") /\ ret[p] = 1
        /\ Cardinality(DOMAIN conversations) = 1
        /\ \E i \in 1..2 : endFired[i] = 1 /\ endFired[3 - i] = 0 /\ (3 - i) \in Range(conversations)
        /\ Quiet(Procs \ {p})

\* the events of kind k that the operation of p has produced, in order
Events(p, k) == SelectSeq(out[p], LAMBDA e : e[1] = k)

\* an inbound event of an authorised sender whose key held a session on
\* arrival
OnSession(p, name) ==
    /\ Finished(p, name)
    /\ CheckAuth(op[p].user)
    /\ op[p].preId # 0

\* ... a session that had not expired when the handling ended
OnLiveSession(p, name) == OnSession(p, name) /\ now <= op[p].pre.ExpiresAt

\* the step the session was on when the event arrived
PreStep(p) == GetStep(config, op[p].pre.FlowID, op[p].pre.StepID)

\* a text that the step of the session accepts
AcceptedText(p) ==
    /\ OnLiveSession(p, "Text")
    /\ PreStep(p) # NoStep
    /\ AcceptsText(PreStep(p))

\* the next step for the input, given the session as it arrived with the
\* input stored
NextOf(p) ==
    LET S == PreStep(p)
        stored == IF S.StoreAs # <<>> THEN Set(op[p].pre, S.StoreAs, op[p].input) ELSE op[p].pre
    IN  DetermineNextStep(config, stored, op[p].input)

\* C5: an accepted, valid text on a step without completion handler whose
\* next step T is not empty leaves the session with the text stored under
\* the step's store key, one more history entry (S, text) at the end, the
\* step T, and the prompt of T displayed (the session live throughout)
Thm_C5 ==
    AcceptedText(Handler)
        /\ ~ValidateInput(config, op[Handler].pre, op[Handler].input).failed
        /\ PreStep(Handler).OnComplete = ""
        /\ NextOf(Handler) # ""
    => LET p == Handler
           S == PreStep(p)
           c == sessions[op[p].preId]
       IN  /\ conversations[Key(p)] = op[p].preId
           /\ S.StoreAs # <<>> => /\ S.StoreAs \in DOMAIN c.Data
                                  /\ c.Data[S.StoreAs] = op[p].input
           /\ \A k \in DOMAIN c.Data \ {S.StoreAs} :
                 k \in DOMAIN op[p].pre.Data /\ c.Data[k] = op[p].pre.Data[k]
           /\ c.History = Append(op[p].pre.History, [StepID |-> op[p].pre.StepID, Input |-> op[p].input])
           /\ c.StepID = NextOf(p)
           /\ Events(p, "display") = << <<"display", op[p].preId, NextOf(p)>> >>
           /\ Events(p, "step") = << <<"step", op[p].preId, op[p].pre.StepID, NextOf(p)>> >>
           /\ Events(p, "handler") = <<>>

Wit_C5 ==
    /\ AcceptedText(Handler)
    /\ op[Handler].pre.StepID = "B"
    /\ op[Handler].input = sB
    /\ sessions[op[Handler].preId].StepID = "D"
    /\ Len(sessions[op[Handler].preId].History) = 2
    /\ sessions[op[Handler].preId].Data[sC] = sB

\* C6: when the validation of an accepted text fails, the router sends the
\* error message and nothing else happens: the session is as it was, no
\* handler runs, no step-change hook fires, no prompt is displayed
Thm_C6 ==
    AcceptedText(Handler)
        /\ ValidateInput(config, op[Handler].pre, op[Handler].input).failed
    => LET p == Handler
           err == ValidateInput(config, op[p].pre, op[p].input)
       IN  /\ conversations[Key(p)] = op[p].preId
           /\ sessions[op[p].preId] = op[p].pre
           /\ err.msg # <<>>
           /\ out[p] = << <<"send", err.msg>> >>
           /\ endFired[op[p].preId] = 0

Wit_C6 ==
    /\ AcceptedText(Handler)
    /\ op[Handler].pre.StepID = "A"
    /\ op[Handler].input = sA
    /\ Len(out[Handler]) = 1
    /\ sessions[op[Handler].preId].StepID = "A"

\* a back or cancel callback
Navigation(p, token) == Finished(p, "Callback") /\ op[p].data = token

\* C7: a back on a live session with at least two history entries sets the
\* step to the step id of the second-most-recent history entry, which is the
\* step the session was on immediately before its current step, and
\* displays the prompt
Cex_C7 ==
    Navigation(Handler, CallbackBack) /\ OnLiveSession(Handler, "Callback")
        /\ Len(op[Handler].pre.History) >= 2
    => LET p == Handler
           h == op[p].pre.History
       IN  /\ sessions[op[p].preId].StepID = h[Len(h) - 1].StepID
           /\ h[Len(h) - 1].StepID = op[p].pre.prior
           /\ Events(p, "display") # <<>>

Cex_C9 ==
    Navigation(Handler, CallbackCancel) /\ OnLiveSession(Handler, "Callback")
    => /\ Key(Handler) \notin DOMAIN conversations
       /\ endFired[op[Handler].preId] >= 1

\* what the branch conditions of the bounded configurations say of a
\* session's data and an input
Truth(condition, data, input) ==
    CASE condition = sInput \o sEq \o Q(sA) -> input = sA
      [] condition = sInput \o sEq \o Q(sB) -> input = sB
      [] condition = sNIs5 -> sN \in DOMAIN data /\ data[sN] = s5
      [] condition = sNNot5 -> ~(sN \in DOMAIN data /\ data[sN] = s5)
      [] OTHER -> TRUE

\* C10: DetermineNextStep returns the next step of the first branch, in
\* declared order, whose condition is true, whatever the explicit next step;
\* the explicit next step (possibly empty) when no branch is true; and the
\* empty string when the flow or the step of the session is unknown
Thm_C10 ==
    Finished(Handler, "DetermineNextStep") =>
        LET c == sessions[loc[Handler].c]
            result == loc[Handler].new
        IN  IF c.FlowID \notin DOMAIN config \/ c.StepID \notin DOMAIN config[c.FlowID].Steps
            THEN result = ""
            ELSE LET step == config[c.FlowID].Steps[c.StepID]
                     trues == {i \in DOMAIN step.Branches :
                                  Truth(step.Branches[i].Condition, c.Data, op[Handler].input)}
                 IN  IF trues = {}
                     THEN result = step.NextStep
                     ELSE \E i \in trues : /\ \A j \in trues : i <= j
                                           /\ result = step.Branches[i].NextStep

Wit_C10 ==
    /\ Finished(Handler, "DetermineNextStep")
    /\ sessions[1].FlowID = "F" /\ sessions[1].StepID = "A"
    /\ sessions[1].Data = <<>>
    /\ op[Handler].input = sB
    /\ config.F.Steps.A.NextStep = "B"
    /\ config.F.Steps.A.Branches =
          << [Condition |-> sInput \o sEq \o Q(sA), NextStep |-> "C"],
             [Condition |-> sNNot5, NextStep |-> "D"] >>
    /\ loc[Handler].new = "D"

\* the branch conditions of the form input == "literal"
InputForms == {sInput \o sEq \o Q(sA), sInput \o sEq \o Q(sB)}

\* C11: with a custom evaluator registered, DetermineNextStep decides a
\* branch whose condition is not of the form input == "literal" by the
\* general evaluator EvaluateCondition, that is by the custom evaluator's
\* verdict: the result is the next step of the first branch that the input
\* comparison or the general evaluator accepts, the explicit next step if none
Cex_C11 ==
    Finished(Handler, "DetermineNextStep") /\ reg.conditionEvaluator # "<nil>" =>
        LET c == sessions[loc[Handler].c]
            result == loc[Handler].new
            step == GetStep(config, c.FlowID, c.StepID)
            verdict(b) == IF b.Condition \in InputForms
                          THEN Truth(b.Condition, c.Data, op[Handler].input)
                          ELSE EvaluateCondition(c, b.Condition)
            trues == {i \in DOMAIN step.Branches : verdict(step.Branches[i])}
        IN  step # NoStep =>
                IF trues = {}
                THEN result = step.NextStep
                ELSE \E i \in trues : /\ \A j \in trues : i <= j
                                      /\ result = step.Branches[i].NextStep

\* the string the session stores for the key of the comparison e: empty for a
\* missing key and for a value that is not a string
Stored(e, data) ==
    IF e.key # sM /\ sN \in DOMAIN data /\ data[sN] \notin NonStrings THEN data[sN] ELSE <<>>

\* C12: with no custom evaluator registered, EvaluateCondition returns true
\* for the empty condition, the equality of the stored string and the value
\* for <key> == "value", the negation of that equality for <key> != "value",
\* and true for every other expression
Cex_C12 ==
    Finished(Handler, "EvaluateCondition") /\ reg.conditionEvaluator = "<nil>" =>
        LET condition == op[Handler].cond
            result == loc[Handler].ok
            data == sessions[loc[Handler].c].Data
        IN  /\ condition = <<>> => result
            /\ \A e \in Comparisons :
                  condition = Render(e) =>
                      result = IF e.op = sEq THEN Stored(e, data) = e.value
                                             ELSE Stored(e, data) # e.value
            /\ condition \in OtherExpressions => result

\* a callback that no navigation token, exact handler or prefix handler claims
Unclaimed(data) ==
    /\ data \notin {CallbackMainMenu, CallbackBack, CallbackCancel}
    /\ data \notin reg.callbackHandlers
    /\ \A prefix \in reg.prefixHandlers : ~HasPrefix(data, prefix)

\* a callback that reaches the session and that the step of the session accepts
AcceptedCallback(p) ==
    /\ OnLiveSession(p, "Callback")
    /\ Unclaimed(op[p].data)
    /\ PreStep(p) # NoStep
    /\ AcceptsCallback(PreStep(p))

\* the value of the event that the router stores: the text of a message, the
\* data of a callback
Value(p) == IF op[p].name = "Callback" THEN op[p].data ELSE op[p].input

\* C13: an accepted text or callback on a step that names a completion
\* handler is stored under the step's store key and appended to the history,
\* the handler runs exactly once if it is registered and not at all (and
\* nothing is reported) if it is not, and nothing else happens: the step of
\* the session is as before, no step-change hook fires, no prompt is displayed
Thm_C13 ==
    (AcceptedText(Handler) \/ AcceptedCallback(Handler)) /\ PreStep(Handler).OnComplete # ""
    => LET p == Handler
           S == PreStep(p)
           c == sessions[op[p].preId]
       IN  /\ conversations[Key(p)] = op[p].preId
           /\ S.StoreAs # <<>> => /\ S.StoreAs \in DOMAIN c.Data
                                  /\ c.Data[S.StoreAs] = Value(p)
           /\ \A k \in DOMAIN c.Data \ {S.StoreAs} :
                 k \in DOMAIN op[p].pre.Data /\ c.Data[k] = op[p].pre.Data[k]
           /\ c.History = Append(op[p].pre.History, [StepID |-> op[p].pre.StepID, Input |-> Value(p)])
           /\ c.StepID = op[p].pre.StepID
           /\ Events(p, "handler") = IF S.OnComplete \in stepHandlers
                                     THEN << <<"handler", S.OnComplete>> >> ELSE <<>>
           /\ Events(p, "step") = <<>>
           /\ Events(p, "display") = <<>>
           /\ Events(p, "send") = <<>>
           /\ Events(p, "error") = <<>>
           /\ endFired[op[p].preId] = 0

Wit_C13 ==
    /\ AcceptedText(Handler)
    /\ op[Handler].pre.StepID = "G"
    /\ PreStep(Handler).OnComplete = "g"
    /\ PreStep(Handler).NextStep = "A"
    /\ op[Handler].input = sA
    /\ sessions[op[Handler].preId].StepID = "G"
    /\ Len(sessions[op[Handler].preId].History) = 3
    /\ out[Handler] = << <<"delete">> >>

\* the session of the sender is in the index exactly as it was when the
\* event arrived, and no hook has fired for it since
Untouched(p) ==
    IF op[p].preId = 0
    THEN Key(p) \notin DOMAIN conversations
    ELSE /\ Key(p) \in DOMAIN conversations
         /\ conversations[Key(p)] = op[p].preId
         /\ sessions[op[p].preId] = op[p].pre
         /\ endFired[op[p].preId] = 0
         /\ Events(p, "end") = <<>>
         /\ Events(p, "step") = <<>>

\* C14: a callback of an authorised sender goes to one destination, the first
\* of: the navigation (for main_menu, back and cancel, even if a handler is
\* registered under the token), the handler registered for exactly the data,
\* one of the registered prefix handlers whose prefix the data starts with,
\* the live session of the sender, the bare acknowledgement
Thm_C14 ==
    Finished(Handler, "Callback") /\ CheckAuth(op[Handler].user)
    => LET p == Handler
           data == op[p].data
           prefixes == {prefix \in reg.prefixHandlers : HasPrefix(data, prefix)}
           live == op[p].preId # 0 /\ now <= op[p].pre.ExpiresAt
       IN  IF data \in {CallbackMainMenu, CallbackBack, CallbackCancel}
           THEN /\ Events(p, "callback") = <<>> /\ Events(p, "prefix") = <<>>
                /\ Events(p, "handler") = <<>>
                /\ Head(out[p]) = <<"answer">>
                /\ op[p].preId # 0 => /\ sessions[op[p].preId].History = op[p].pre.History
                                      /\ sessions[op[p].preId].Data = op[p].pre.Data
           ELSE IF data \in reg.callbackHandlers
           THEN out[p] = << <<"callback", data>> >> /\ Untouched(p)
           ELSE IF prefixes # {}
           THEN (\E prefix \in prefixes : out[p] = << <<"prefix", prefix>> >>) /\ Untouched(p)
           ELSE IF live
           THEN /\ Head(out[p]) = <<"answer">>
                /\ Events(p, "answer") = << <<"answer">> >>
                /\ Events(p, "callback") = <<>> /\ Events(p, "prefix") = <<>>
                /\ IF PreStep(p) # NoStep /\ AcceptsCallback(PreStep(p))
                   THEN sessions[op[p].preId].History =
                            Append(op[p].pre.History, [StepID |-> op[p].pre.StepID, Input |-> data])
                   ELSE Untouched(p) /\ out[p] = << <<"answer">> >>
           ELSE op[p].preId = 0 => out[p] = << <<"answer">> >> /\ Untouched(p)

Wit_C14 ==
    /\ Finished(Handler, "Callback")
    /\ reg = AppReg
    /\ op[Handler].user = 1
    /\ op[Handler].data = sX1
    /\ op[Handler].pre.StepID = "H"
    /\ now <= op[Handler].pre.ExpiresAt
    /\ out[Handler] = << <<"callback", sX1>> >>
    /\ sessions[op[Handler].preId] = op[Handler].pre

InboundEvents == {"Command", "Callback", "Text", "Photo", "Document"}

\* the auth predicate is set and rejects the sender of the event
Rejected(p) == reg.authFunc /\ ~authFunc(op[p].user)

\* the events that invoke a registered handler or a completion handler
Invocations(p) ==
    SelectSeq(out[p], LAMBDA e : e[1] \in {"command", "callback", "prefix", "messageHandler",
                                           "photoHandler", "documentHandler", "handler", "main_menu"})

\* C15: an event whose sender the auth predicate rejects invokes no handler
\* and leaves the index and the session of the sender as they were, with no
\* hook fired; the router acknowledges a rejected callback once and emits
\* nothing for a rejected command, text, photo or document.  Without an auth
\* predicate the event of any sender is dispatched: a registered command
\* runs its handler, an exactly registered callback its handler
Thm_C15 ==
    \A name \in InboundEvents :
        Finished(Handler, name) =>
            LET p == Handler
            IN  /\ Rejected(p) =>
                    /\ out[p] = IF name = "Callback" THEN << <<"answer">> >> ELSE <<>>
                    /\ Invocations(p) = <<>>
                    /\ Untouched(p)
                    /\ Len(sessions) <= 1
                /\ ~reg.authFunc /\ name = "Command" /\ Command(op[p].input) \in reg.commandHandlers =>
                    out[p] = << <<"command", Command(op[p].input)>> >>
                /\ ~reg.authFunc /\ name = "Callback" /\ op[p].data \in reg.callbackHandlers
                        /\ op[p].data \notin {CallbackMainMenu, CallbackBack, CallbackCancel} =>
                    out[p] = << <<"callback", op[p].data>> >>

Wit_C15 ==
    /\ Finished(Handler, "Callback")
    /\ reg = AppReg
    /\ op[Handler].user = 7
    /\ op[Handler].data = sX1
    /\ op[Handler].preId # 0
    /\ now <= op[Handler].pre.ExpiresAt
    /\ out[Handler] = << <<"answer">> >>
    /\ sessions[op[Handler].preId] = op[Handler].pre

\* the expected input kind of the step matches the kind of the message
KindMatches(name, step) ==
    /\ step # NoStep
    /\ CASE name = "Text" -> step.InputType \in {"text", "any"}
         [] name = "Photo" -> step.InputType = "photo"
         [] name = "Document" -> step.InputType = "document"

\* the invocation of the default handler of the kind, if one is registered
DefaultHandler(name) ==
    CASE name = "Text" -> IF reg.messageHandler THEN << <<"messageHandler">> >> ELSE <<>>
      [] name = "Photo" -> IF reg.photoHandler THEN << <<"photoHandler">> >> ELSE <<>>
      [] name = "Document" -> IF reg.documentHandler THEN << <<"documentHandler">> >> ELSE <<>>

\* C16: a text, photo or document of an authorised sender with a live session
\* goes to the session, and to no default handler, when the kind of the step
\* matches; when it does not match, the session is left alone and the default
\* handler of the kind runs if one is registered, nothing happens otherwise
Cex_C16 ==
    \A name \in {"Text", "Photo", "Document"} :
        OnLiveSession(Handler, name) =>
            LET p == Handler
            IN  IF KindMatches(name, PreStep(p))
                THEN /\ Events(p, "messageHandler") = <<>>
                     /\ Events(p, "photoHandler") = <<>>
                     /\ Events(p, "documentHandler") = <<>>
                ELSE /\ Untouched(p)
                     /\ out[p] = DefaultHandler(name)

\* C17: when the internal main-menu handler is invoked for a main_menu
\* callback, the session that the key of the sender held is out of the index
\* and its end hook has fired; when the handling has ended the key holds no
\* session (Get returns none), and the end hook comes before the handler in
\* what the router did
Thm_C17 ==
    /\ [](Navigation(Handler, CallbackMainMenu) /\ CheckAuth(op[Handler].user) =>
            /\ Key(Handler) \notin DOMAIN conversations
            /\ op[Handler].preId # 0 =>
                  /\ endFired[op[Handler].preId] = 1
                  /\ out[Handler] = << <<"answer">>, <<"end", op[Handler].preId>> >> \o
                                    (IF MainMenuInternalKey \in reg.callbackHandlers
                                     THEN << <<"main_menu">> >> ELSE <<>>))
    /\ [][Takes(Handler, "mm_internal") /\ op[Handler].data = CallbackMainMenu =>
            /\ Key(Handler) \notin DOMAIN conversations
            /\ op[Handler].preId # 0 => /\ endFired[op[Handler].preId] = 1
                                        /\ Events(Handler, "end") = << <<"end", op[Handler].preId>> >>
            /\ Events(Handler, "main_menu") = <<>>]_vars

Wit_C17 ==
    /\ Navigation(Handler, CallbackMainMenu)
    /\ op[Handler].user = 1
    /\ op[Handler].preId = 1
    /\ op[Handler].pre.StepID = "B"
    /\ now <= op[Handler].pre.ExpiresAt
    /\ conversations = <<>>
    /\ endFired[1] = 1
    /\ out[Handler] = << <<"answer">>, <<"end", 1>>, <<"main_menu">> >>

\* C18: every session in the index is on a step that its flow defines
Cex_C18 ==
    \A k \in DOMAIN conversations :
        LET c == sessions[conversations[k]]
        IN  /\ c.FlowID \in DOMAIN config
            /\ c.StepID \in DOMAIN config[c.FlowID].Steps

\* an event that reaches the live session of its authorised sender as input,
\* on a step that the flow does not define or whose expected input kind does
\* not accept the kind of the event
NotAccepted(p) ==
    LET S == PreStep(p)
    IN  \/ /\ OnLiveSession(p, "Text")
           /\ S = NoStep \/ S.InputType \notin {"text", "any"}
        \/ /\ OnLiveSession(p, "Callback")
           /\ Unclaimed(op[p].data)
           /\ S = NoStep \/ S.InputType \notin {"callback", "any"}
        \/ /\ OnLiveSession(p, "Photo")
           /\ S = NoStep \/ S.InputType # "photo"
        \/ /\ OnLiveSession(p, "Document")
           /\ S = NoStep \/ S.InputType # "document"

\* C19: an event that the step of the session does not accept leaves the
\* session in the index with its data, history and step as they were; no
\* completion handler runs, and no start, end or step-change hook fires
Thm_C19 ==
    NotAccepted(Handler) =>
        /\ Untouched(Handler)
        /\ Events(Handler, "handler") = <<>>
        /\ Events(Handler, "start") = <<>>
        /\ Events(Handler, "display") = <<>>
        /\ startFired[op[Handler].preId] = 1

Wit_C19 ==
    /\ NotAccepted(Handler)
    /\ op[Handler].name = "Callback"
    /\ op[Handler].data = sY
    /\ op[Handler].pre.StepID = "A"
    /\ PreStep(Handler).InputType = "text"
    /\ out[Handler] = << <<"answer">> >>
    /\ sessions[op[Handler].preId] = op[Handler].pre

\* the session belongs to the pair of ids of the call
Own(p, id) == sessions[id].UserID = op[p].user /\ sessions[id].ChatID = op[p].chat

\* C20: a call for one pair of ids touches the session of that pair only:
\* the session that Get returns, that Start replaces (ends), that End removes
\* and that ChangeStep moves was started for the pair of the call
Cex_C20 ==
    LET p == Handler
    IN  /\ Finished(p, "Get") /\ ret[p] # 0 => Own(p, ret[p])
        /\ Finished(p, "Start") => \A i \in 1..Len(out[p]) : out[p][i][1] = "end" => Own(p, out[p][i][2])
        /\ Finished(p, "End") /\ loc[p].e # 0 => Own(p, loc[p].e)
        /\ Finished(p, "ChangeStep") /\ loc[p].cs # 0 => Own(p, loc[p].cs)

---------------------------------------------------------------------------
(* Manager.ChangeStep called from concurrent handlers *)

CallStepStart(p) ==
    /\ Len(sessions) + Cardinality({q \in Procs : At(q, "start_lock")}) < MaxSessions
    /\ \E ttl \in TTLs :
          Begin(p, [NoOp EXCEPT !.name = "Start", !.user = 1, !.chat = 1, !.flow = "F",
                                !.step = "A", !.ttl = ttl], <<"start_lock", "start_hook">>)

CallChangeStep(p) ==
    \E newStep \in {"B", "C"} :
        Begin(p, [NoOp EXCEPT !.name = "ChangeStep", !.user = 1, !.chat = 1, !.step = newStep],
              <<"get_read", "cs_old">>)

\* the handlers of two events of one user run at the same time
StepsNext ==
    \/ Tick
    \/ \E p \in Procs :
          \/ CallStepStart(p)
          \/ CallChangeStep(p)
          \/ StartLock(p)
          \/ StartHook(p)
          \/ GetRead(p)
          \/ GetExpired(p)
          \/ EndLock(p)
          \/ EndHook(p)
          \/ ChangeStepOld(p)
          \/ ChangeStepSet(p)
          \/ ChangeStepHook(p)
          \/ Done(p)

SpecSteps == Init /\ [][StepsNext]_vars

\* C21: a ChangeStep that finds no live session changes no step and fires no
\* step-change hook; one that finds a live session sets its step to new_step
\* and fires the step-change hook once with (old, new), old being the step the
\* session held immediately before the change
Cex_C21 ==
    /\ [](\A p \in Procs :
            Finished(p, "ChangeStep") =>
                IF loc[p].cs = 0
                THEN Events(p, "step") = <<>>
                ELSE Events(p, "step") = << <<"step", loc[p].cs, loc[p].old, op[p].step>> >>)
    /\ [][\A p \in Procs :
            /\ op[p].name = "ChangeStep" /\ pc'[p] # pc[p] /\ ~At(p, "cs_set") /\ ~At(p, "done") =>
                  \A i \in DOMAIN sessions : sessions'[i].StepID = sessions[i].StepID
            /\ Takes(p, "cs_set") =>
                  /\ sessions'[loc[p].cs].StepID = op[p].step
                  /\ loc[p].old = sessions[loc[p].cs].StepID]_vars

---------------------------------------------------------------------------
(* Manager.StartCleanupTask: the goroutine of the periodic sweep *)

\* the goroutine that StartCleanupTask starts
Task == "p2"

\* Wrapper.Start has called StartCleanupTask: the task waits in its select
SweepInit ==
    /\ config = DefaultFlows
    /\ reg = DefaultReg
    /\ manager = NewManager(defaultTTL)
    /\ ctx = Background
    /\ conversations = <<>>
    /\ sessions = <<>>
    /\ now = 0
    /\ endFired = [i \in 1..MaxSessions |-> 0]
    /\ startFired = [i \in 1..MaxSessions |-> 0]
    /\ pc = [p \in Procs |-> IF p = Task THEN <<"select">> ELSE <<>>]
    /\ op = [p \in Procs |-> NoOp]
    /\ loc = [p \in Procs |-> NoLoc]
    /\ ret = [p \in Procs |-> 0]
    /\ out = [p \in Procs |-> <<>>]

\* case <-ticker.C: m.Cleanup(ctx).  The ticker fires whenever its interval
\* has passed; select takes a ready case, whether or not ctx.Done() is ready
\* too
TaskSweep(p) ==
    /\ At(p, "select")
    /\ pc' = [pc EXCEPT ![p] = <<"cleanup", "select">>]
    /\ op' = [op EXCEPT ![p] = [NoOp EXCEPT !.name = "Cleanup"]]
    /\ out' = [out EXCEPT ![p] = <<>>]
    /\ UNCHANGED <<config, reg, manager, ctx, conversations, sessions, now, endFired, startFired, loc, ret>>

TaskStopDrain(p) ==
    /\ At(p, "select")
    /\ ctx.done
    /\ pc' = [pc EXCEPT ![p] = <<>>]
    /\ op' = [op EXCEPT ![p] = NoOp]
    /\ out' = [out EXCEPT ![p] = <<>>]
    /\ endFired' = [i \in DOMAIN endFired |-> IF i \in Range(conversations) THEN endFired[i] + 1 ELSE endFired[i]]
    /\ conversations' = <<>>
    /\ UNCHANGED <<config, reg, manager, ctx, sessions, now, startFired, loc, ret>>

\* case <-ctx.Done(): return (and the deferred ticker.Stop())
TaskStop(p) ==
    /\ At(p, "select")
    /\ ctx.done
    /\ pc' = [pc EXCEPT ![p] = <<>>]
    /\ op' = [op EXCEPT ![p] = NoOp]
    /\ out' = [out EXCEPT ![p] = <<>>]
    /\ UNCHANGED <<config, reg, manager, ctx, conversations, sessions, now, endFired, startFired, loc, ret>>

\* the owner of the context cancels it
Cancel ==
    /\ ~ctx.done
    /\ ctx' = [ctx EXCEPT !.done = TRUE]
    /\ UNCHANGED <<config, reg, manager, conversations, sessions, now, endFired, startFired, pc, op, loc, ret, out>>

\* the steps of a call of the Manager that the handler has begun
HandlerStep ==
    \/ StartLock(Handler)
    \/ StartHook(Handler)
    \/ GetRead(Handler)
    \/ GetExpired(Handler)
    \/ EndLock(Handler)
    \/ EndHook(Handler)
    \/ Done(Handler)

\* one handler calls the Manager while the cleanup task runs
SweepNext ==
    \/ Tick
    \/ CallStart(Handler)
    \/ CallGet(Handler)
    \/ HandlerStep
    \/ TaskSweep(Task)
    \/ Cleanup(Task)

\* time advances, a begun call proceeds, and the ticker keeps firing
FairSweep ==
    /\ SweepInit
    /\ [][SweepNext]_vars
    /\ WF_vars(Tick)
    /\ WF_vars(HandlerStep)
    /\ WF_vars(TaskSweep(Task) \/ Cleanup(Task))

\* C22: with time advancing and the sweep scheduled again and again, every
\* session in the index is eventually out of the index with its end hook
\* fired, whatever step it stands on and whether or not any call touches it
\* (the clock of the model stops at MaxTime: the sessions are those that expire
\* before)
Thm_C22 ==
    \A i \in 1..MaxSessions :
        [](i \in Range(conversations) /\ sessions[i].ExpiresAt < MaxTime
              => <>(i \notin Range(conversations) /\ endFired[i] = 1))

Wit_C22 ==
    /\ At(Task, "select")
    /\ Idle(Handler)
    /\ out[Task] = << <<"swept", {1}>> >>
    /\ endFired[1] = 1
    /\ conversations = <<>>
    /\ sessions[1].StepID = "A"

\* ... and the owner of the context may cancel it
CancelNext ==
    \/ Tick
    \/ CallStart(Handler)
    \/ CallGet(Handler)
    \/ HandlerStep
    \/ TaskSweep(Task)
    \/ Cleanup(Task)
    \/ Cancel
    \/ TaskStop(Task)

\* a sweep that has begun ends, and a select with ctx.Done() ready again and
\* again eventually takes that case (select chooses among the ready cases at
\* random)
FairCancel ==
    /\ SweepInit
    /\ [][CancelNext]_vars
    /\ WF_vars(Cleanup(Task))
    /\ SF_vars(TaskStop(Task))

\* the cleanup goroutine has returned
Stopped == pc[Task] = <<>>

\* C23: once the context is cancelled the cleanup task eventually returns,
\* and a task that has returned never sweeps again; neither the cancellation
\* nor the return of the task removes a session or fires an end hook
Thm_C23 ==
    /\ ctx.done ~> Stopped
    /\ [][Stopped => Stopped']_vars
    /\ [][ctx'.done # ctx.done \/ (Stopped' /\ ~Stopped)
             => UNCHANGED <<conversations, sessions, endFired>>]_vars

Wit_C23 ==
    /\ ctx.done
    /\ Stopped
    /\ conversations # <<>>
    /\ \A i \in Range(conversations) : endFired[i] = 0 /\ now > sessions[i].ExpiresAt

---------------------------------------------------------------------------
(* NewManager and the ttl of Manager.Start *)

\* the defaultTTL arguments of NewManager and the ttl arguments of Start, in
\* clock ticks
DefaultArgs == {-1, 0, 1, 3}
StartTTLs == {-1, 0, 1, 2}

TTLInit ==
    /\ config = DefaultFlows
    /\ reg = DefaultReg
    /\ \E d \in DefaultArgs : manager = NewManager(d)
    /\ ctx = Background
    /\ conversations = <<>>
    /\ sessions = <<>>
    /\ now = 0
    /\ endFired = [i \in 1..MaxSessions |-> 0]
    /\ startFired = [i \in 1..MaxSessions |-> 0]
    /\ pc = [p \in Procs |-> <<>>]
    /\ op = [p \in Procs |-> NoOp]
    /\ loc = [p \in Procs |-> NoLoc]
    /\ ret = [p \in Procs |-> 0]
    /\ out = [p \in Procs |-> <<>>]

CallTTLStart(p) ==
    /\ Len(sessions) < MaxSessions
    /\ \E u \in UserIDs, ch \in ChatIDs, ttl \in StartTTLs :
          Begin(p, [NoOp EXCEPT !.name = "Start", !.user = u, !.chat = ch, !.flow = "F",
                                !.step = "A", !.ttl = ttl], <<"start_lock", "start_hook">>)

TTLNext ==
    \/ Tick
    \/ CallTTLStart(Handler)
    \/ StartLock(Handler)
    \/ StartHook(Handler)
    \/ Done(Handler)

SpecTTL == TTLInit /\ [][TTLNext]_vars

\* C24: the session that Start creates expires at its creation time plus ttl
\* when ttl > 0, and plus the default of the store when ttl <= 0; the default
\* of the store is the argument of NewManager when that is positive and 30
\* minutes (defaultTTL) otherwise
Thm_C24 ==
    [][Takes(Handler, "start_lock") =>
          LET ttl == op[Handler].ttl
              d == manager.given
          IN  sessions'[Len(sessions')].ExpiresAt =
                  now + (IF ttl > 0 THEN ttl ELSE IF d > 0 THEN d ELSE defaultTTL)]_vars

Wit_C24 ==
    /\ Finished(Handler, "Start")
    /\ op[Handler].ttl = -1
    /\ manager.given = 0
    /\ now = 1
    /\ sessions[ret[Handler]].ExpiresAt = 1 + defaultTTL

---------------------------------------------------------------------------
---------------------------------------------------------------------------
(* ValidateInput over bounded rules, validators and inputs *)

sOverride == <<"custom message">>
s1 == <<"1">>
s10 == <<"1", "0">>

\* the rules of a step: every type of ValidateInput's switch, a type outside
\* it, and no rule
NumberRules ==
    {[NoValidation EXCEPT !.Type = "number", !.Min = min, !.Max = max, !.ErrorMsg = msg] :
        min \in {<<>>, s1, sA}, max \in {<<>>, s10, sA}, msg \in {<<>>, sOverride}}

RegexPatterns == {<<>>, <<"(">>, <<"(", "a">>, sA, <<"^", "a", "$">>, <<"^", "5">>, <<"b", "$">>}

Rules ==
    NumberRules
    \cup {[NoValidation EXCEPT !.Type = t, !.ErrorMsg = msg] :
             t \in {"address", "email", "required"}, msg \in {<<>>, sOverride}}
    \cup {[NoValidation EXCEPT !.Type = "regex", !.Pattern = pat, !.ErrorMsg = msg] :
             pat \in RegexPatterns, msg \in {<<>>, sOverride}}
    \cup {[NoValidation EXCEPT !.Type = "custom", !.Custom = name, !.ErrorMsg = msg] :
             name \in {"", "v", "w"}, msg \in {<<>>, sOverride}}
    \cup {NoValidation}

\* flow F: A (text, the rule) -> B (text, no rule)
RuleFlows(rule) ==
    [F |-> [InitialStep |-> "A", TTL |-> 1, Steps |->
        [A |-> [InputType |-> "text", Validation |-> rule, StoreAs |-> sN,
                NextStep |-> "B", Branches |-> <<>>, OnComplete |-> ""],
         B |-> [InputType |-> "text", Validation |-> NoValidation, StoreAs |-> <<>>,
                NextStep |-> "", Branches |-> <<>>, OnComplete |-> ""]]]]

\* FlowEngine.validators: nothing registered, or v registered
ValidatorSets == {<<>>} \cup {[name \in {"v"} |-> kind] : kind \in ValidatorKinds}

\* n times the character ch
Repeat(ch, n) == [i \in 1..n |-> ch]

\* addresses and near-addresses: a prefix, then n times the character fill
\* with the character odd at position pos
AddressInputs ==
    {prefix \o [Repeat(fill, n) EXCEPT ![pos] = odd] :
        prefix \in {<<"0", "x">>, <<"0", "X">>, <<"1", "x">>},
        fill \in {"0", "a", "F"},
        odd \in {"0", "a", "F", "g", "G", "é", "+", "_"},
        n \in {39, 40, 41},
        pos \in {1, 39}}

NumberInputs ==
    {s5, s1, s10, <<"0">>, <<"1", "1">>, <<"-", "1">>, <<"+", "5">>, <<"N", "a", "N">>,
     <<"n", "a", "n">>, sA, <<>>, <<"5", "a">>, <<" ", "5">>}

EmailInputs ==
    {<<"a", "@", "b", ".", "c", "o">>, <<"a", "@", "b", ".", "c">>, <<"a", "@", "b">>,
     <<"@", "b", ".", "c", "o">>, <<"a", ".", "b", "@", "c", "-", "d", ".", "o", "r", "g">>,
     <<"a", "@", ".", "c", "o">>, <<"a", " ", "@", "b", ".", "c", "o">>,
     <<"a", "@", "b", ".", "c", "o", ".", "u", "k">>, <<"a", "@", "b", ".", "c", "1">>}

RegexInputs == {sA, sB, <<"b", "a">>, <<"a", "b">>, <<"5", "0">>}

ValidationInputs == NumberInputs \cup EmailInputs \cup RegexInputs \cup AddressInputs

\* a session on the step with the rule, on the step without rule, or on a
\* step that the flow does not define
ValidateInit ==
    /\ \E rule \in Rules : config = RuleFlows(rule)
    /\ \E v \in ValidatorSets : reg = [DefaultReg EXCEPT !.validators = v]
    /\ manager = NewManager(defaultTTL)
    /\ ctx = Background
    /\ \E step \in {"A", "B", "Z"} :
          sessions = << NewConversation(1, 1, "F", step, config.F.TTL, 0) >>
    /\ conversations = [k \in {conversationKey(1, 1)} |-> 1]
    /\ now = 0
    /\ endFired = [i \in 1..MaxSessions |-> 0]
    /\ startFired = [i \in 1..MaxSessions |-> IF i = 1 THEN 1 ELSE 0]
    /\ pc = [p \in Procs |-> <<>>]
    /\ op = [p \in Procs |-> NoOp]
    /\ loc = [p \in Procs |-> NoLoc]
    /\ ret = [p \in Procs |-> 0]
    /\ out = [p \in Procs |-> <<>>]

\* e.ValidateInput(conv, input) for the session of the sender
CallValidateInput(p) ==
    /\ Idle(p)
    /\ \E input \in ValidationInputs :
          /\ op' = [op EXCEPT ![p] = Arrival([NoOp EXCEPT !.name = "ValidateInput", !.user = 1,
                                                          !.chat = 1, !.input = input])]
          /\ out' = [out EXCEPT ![p] = << <<"error", ValidateInput(config, sessions[1], input)>> >>]
    /\ loc' = [loc EXCEPT ![p].c = 1]
    /\ pc' = [pc EXCEPT ![p] = <<"done">>]
    /\ UNCHANGED <<config, reg, manager, ctx, conversations, sessions, now, endFired, startFired, ret>>

ValidateNext ==
    \/ CallValidateInput(Handler)
    \/ Done(Handler)

SpecValidate == ValidateInit /\ [][ValidateNext]_vars

\* the error that the finished call of ValidateInput returned
Verdict(p) == out[p][1][2]

\* the rule of the step the session stood on
Rule(p) == PreStep(p).Validation

\* the default messages of a rule's type
Defaults(rule) ==
    CASE rule.Type = "number" -> {<<"Please enter a valid number">>,
                                  <<"Number cannot be less than ", rule.Min>>,
                                  <<"Number cannot be greater than ", rule.Max>>}
      [] rule.Type = "address" -> {sAddressMsg}
      [] rule.Type = "email" -> {<<"Please enter a valid email address">>}
      [] rule.Type = "regex" -> {<<"Input format is incorrect">>}
      [] OTHER -> {}

\* C26: a validation failure that ValidateInput returns, whatever the type of
\* the rule, has a non-empty message: the ErrorMsg of the rule when that is
\* configured, the default of the rule's type otherwise (the configuration
\* error of a malformed pattern is not counted as a validation failure)
Cex_C26 ==
    LET p == Handler
    IN  Finished(p, "ValidateInput") /\ Verdict(p).failed /\ Verdict(p).msg # sConfigurationError
        => /\ Verdict(p).msg # <<>>
           /\ IF Rule(p).ErrorMsg # <<>>
              THEN Verdict(p).msg = Rule(p).ErrorMsg
              ELSE Verdict(p).msg \in Defaults(Rule(p))

---------------------------------------------------------------------------
(* The router on a step with a regex rule *)

RegexRules ==
    {[NoValidation EXCEPT !.Type = "regex", !.Pattern = pat, !.ErrorMsg = msg] :
        pat \in {<<"(">>, <<"^", "a", "$">>}, msg \in {<<>>, sOverride}}

\* after StartConversation(1, 1, "F") on a flow whose first step has the rule
RulesInit ==
    /\ \E rule \in RegexRules : config = RuleFlows(rule)
    /\ reg = DefaultReg
    /\ manager = NewManager(defaultTTL)
    /\ ctx = Background
    /\ conversations = [k \in {conversationKey(1, 1)} |-> 1]
    /\ sessions = << NewConversation(1, 1, "F", config.F.InitialStep, config.F.TTL, 0) >>
    /\ startFired = [i \in 1..MaxSessions |-> IF i = 1 THEN 1 ELSE 0]
    /\ now = 0
    /\ endFired = [i \in 1..MaxSessions |-> 0]
    /\ pc = [p \in Procs |-> <<>>]
    /\ op = [p \in Procs |-> NoOp]
    /\ loc = [p \in Procs |-> NoLoc]
    /\ ret = [p \in Procs |-> 0]
    /\ out = [p \in Procs |-> <<>>]

\* one text message at a time
RulesNext ==
    \/ Tick
    \/ CallText(Handler)
    \/ GetRead(Handler)
    \/ GetExpired(Handler)
    \/ EndLock(Handler)
    \/ EndHook(Handler)
    \/ ChangeStepOld(Handler)
    \/ ChangeStepSet(Handler)
    \/ ChangeStepHook(Handler)
    \/ HandleMessage(Handler)
    \/ HandleConversationMessage(Handler)
    \/ HcmValidate(Handler)
    \/ HcmStore(Handler)
    \/ HcmHistory(Handler)
    \/ HcmNext(Handler)
    \/ DisplayStep(Handler)
    \/ Done(Handler)

SpecRules == RulesInit /\ [][RulesNext]_vars

\* C27: a regex rule whose pattern does not compile is a configuration error
\* and not a validation failure, and only validation failures are shown to the
\* user: for a text on the step of such a rule the router sends the user no
\* message and leaves the session as it was
Cex_C27 ==
    LET p == Handler
    IN  AcceptedText(p) /\ Rule(p).Type = "regex" /\ MatchString(Rule(p).Pattern, op[p].input).err
        => /\ Events(p, "send") = <<>>
           /\ Untouched(p)

\* C28: ValidateInput returns no error and calls no validator when the step
\* of the session has no rule, when the flow does not define the step of the
\* session, and when the rule is a custom rule naming a validator that is not
\* registered
Thm_C28 ==
    LET p == Handler
    IN  Finished(p, "ValidateInput")
        => /\ PreStep(p) = NoStep => Verdict(p) = NoError
           /\ PreStep(p) # NoStep /\ Rule(p) = NoValidation => Verdict(p) = NoError
           /\ PreStep(p) # NoStep /\ Rule(p).Type = "custom" /\ Rule(p).Custom # ""
                 /\ Rule(p).Custom \notin DOMAIN reg.validators
              => Verdict(p) = NoError

Wit_C28 ==
    /\ Finished(Handler, "ValidateInput")
    /\ PreStep(Handler) # NoStep
    /\ Rule(Handler).Type = "custom"
    /\ Rule(Handler).Custom = "w"
    /\ Rule(Handler).ErrorMsg = sOverride
    /\ "v" \in DOMAIN reg.validators
    /\ reg.validators["v"] = "reject"
    /\ op[Handler].input = s5
    /\ Verdict(Handler) = NoError

\* C29: under a number rule ValidateInput accepts an input exactly when it
\* parses as a number that lies in [min, max], a bound counting only when it
\* is configured and parses, and rejects every other input with a non-empty
\* message; with min = 1 and max = 10 it accepts 5, 1 and 10 and rejects 0, 11
\* and text that is no number
Cex_C29 ==
    LET p == Handler
        input == op[p].input
        num == ParseFloat(input)
        min == ParseFloat(Rule(p).Min)
        max == ParseFloat(Rule(p).Max)
        above == Rule(p).Min # <<>> /\ min.ok => ~num.nan /\ num.val >= min.val
        below == Rule(p).Max # <<>> /\ max.ok => ~num.nan /\ num.val <= max.val
    IN  Finished(p, "ValidateInput") /\ PreStep(p) # NoStep /\ Rule(p).Type = "number"
        => /\ ~Verdict(p).failed <=> num.ok /\ above /\ below
           /\ Verdict(p).failed => Verdict(p).msg # <<>>
           /\ Rule(p).Min = s1 /\ Rule(p).Max = s10
              => /\ input \in {s5, s1, s10} => ~Verdict(p).failed
                 /\ input \in {<<"0">>, <<"1", "1">>, sA} => Verdict(p).failed

\* C30: under an address rule ValidateInput accepts an input exactly when it
\* has 42 characters, starts with 0x and its other 40 characters are
\* hexadecimal digits of either case; an input that is shorter or longer, has
\* another prefix or holds a character that is no hexadecimal digit is
\* rejected
Thm_C30 ==
    LET p == Handler
        input == op[p].input
    IN  Finished(p, "ValidateInput") /\ PreStep(p) # NoStep /\ Rule(p).Type = "address"
        => (~Verdict(p).failed <=>
               /\ Len(input) = 42
               /\ input[1] = "0" /\ input[2] = "x"
               /\ \A i \in 3..42 : input[i] \in Digits \cup {"a", "b", "c", "d", "e", "f"}
                                             \cup {"A", "B", "C", "D", "E", "F"})

\* an address of more than 16 significant digits in both cases is accepted
Wit_C30 ==
    /\ Finished(Handler, "ValidateInput")
    /\ PreStep(Handler) # NoStep
    /\ Rule(Handler).Type = "address"
    /\ Len(op[Handler].input) = 42
    /\ op[Handler].input[3] = "F"
    /\ op[Handler].input[4] = "a"
    /\ ~Verdict(Handler).failed

---------------------------------------------------------------------------
\* C31: the lazy expiry of Get removes the session instance that Get found
\* expired and no other: under every interleaving with a Start for the same
\* key, the session that Get's End takes out of the index and fires the end
\* hook for is the one Get read, never the session Start has installed since
Cex_C31 ==
    \A p \in Procs :
        Finished(p, "Get") /\ loc[p].e # 0 => loc[p].e = loc[p].g

---------------------------------------------------------------------------
\* The session whose StepID goroutine p is about to read as a plain field,
\* outside conv.mu (0 when its next step is no such read): oldStep :=
\* conv.StepID of ChangeStep, GetStep(c.FlowID, c.StepID) and
\* c.AddHistory(c.StepID, input) of the router
PlainRead(p) ==
    IF At(p, "cs_old") \/ At(p, "hm_conv") THEN ret[p]
    ELSE IF At(p, "hcm_store") THEN loc[p].c
    ELSE 0

\* The session whose StepID goroutine p is about to write inside SetStep,
\* under conv.mu (0 when its next step is no SetStep)
LockedWrite(p) == IF At(p, "cs_set") THEN loc[p].cs ELSE 0

\* C32: every read of a session's step id happens under the session's own
\* lock, so no read of step_id races with a SetStep on the same session: no
\* state has one goroutine about to read the StepID of a session outside
\* conv.mu while another goroutine is about to SetStep that session
Cex_C32 ==
    \A p, q \in Procs :
        p # q /\ PlainRead(p) # 0 => PlainRead(p) # LockedWrite(q)

---------------------------------------------------------------------------
\* one inbound text, callback or call of StartConversation at a time, on the
\* flow whose steps B and C can resolve to no next step
StayNext ==
    \/ Tick
    \/ CallStartConversation(Handler)
    \/ CallText(Handler)
    \/ CallDispatchCallback(Handler)
    \/ StartConversation(Handler)
    \/ StartLock(Handler)
    \/ StartHook(Handler)
    \/ GetRead(Handler)
    \/ GetExpired(Handler)
    \/ EndLock(Handler)
    \/ EndHook(Handler)
    \/ ChangeStepOld(Handler)
    \/ ChangeStepSet(Handler)
    \/ ChangeStepHook(Handler)
    \/ HandleMessage(Handler)
    \/ HandleConversationMessage(Handler)
    \/ HcmValidate(Handler)
    \/ HcmStore(Handler)
    \/ HcmHistory(Handler)
    \/ HcmNext(Handler)
    \/ DisplayStep(Handler)
    \/ HandleCallback(Handler)
    \/ HandleConversationCallback(Handler)
    \/ HandleMainMenu(Handler)
    \/ MainMenuInternal(Handler)
    \/ HandleBack(Handler)
    \/ Done(Handler)

SpecStay == Init /\ [][StayNext]_vars

\* an accepted text or callback whose step names no completion handler and
\* whose next step, for the session as it arrived with the input stored, is
\* empty
StaysPut(p) ==
    /\ AcceptedText(p) \/ AcceptedCallback(p)
    /\ PreStep(p).OnComplete = ""
    /\ LET S == PreStep(p)
           stored == IF S.StoreAs # <<>> THEN Set(op[p].pre, S.StoreAs, Value(p)) ELSE op[p].pre
       IN  DetermineNextStep(config, stored, Value(p)) = ""

\* C33: an accepted input that resolves to an empty next step leaves the
\* session where it is: the step id is as before, no step-change hook fires,
\* no prompt is displayed and the session is still in the index, while the
\* input is stored under the step's store key and one history entry is added
Thm_C33 ==
    StaysPut(Handler)
    => LET p == Handler
           S == PreStep(p)
           c == sessions[op[p].preId]
       IN  /\ c.StepID = op[p].pre.StepID
           /\ Events(p, "step") = <<>>
           /\ Events(p, "display") = <<>>
           /\ Key(p) \in DOMAIN conversations
           /\ conversations[Key(p)] = op[p].preId
           /\ endFired[op[p].preId] = 0
           /\ S.StoreAs # <<>> => /\ S.StoreAs \in DOMAIN c.Data
                                  /\ c.Data[S.StoreAs] = Value(p)
           /\ c.History = Append(op[p].pre.History, [StepID |-> op[p].pre.StepID, Input |-> Value(p)])

Wit_C33 ==
    /\ StaysPut(Handler)
    /\ AcceptedText(Handler)
    /\ op[Handler].pre.StepID = "B"
    /\ op[Handler].input = s5
    /\ PreStep(Handler).NextStep = ""
    /\ Len(PreStep(Handler).Branches) = 2
    /\ sessions[op[Handler].preId].StepID = "B"
    /\ sessions[op[Handler].preId].Data[sC] = s5
    /\ Len(sessions[op[Handler].preId].History) = 2

---------------------------------------------------------------------------
(* The index lock m.mu and hooks that call back into the Manager *)

\* goroutine p is inside the section of Start that holds m.mu: it has passed
\* m.mu.Lock() and has not yet reached m.mu.Unlock(), which follows the
\* installation of the new session
HoldsLock(p) == ~At(p, "m_lock") /\ "start_new" \in Range(pc[p])

\* sync.RWMutex is not reentrant: Lock and RLock wait while any goroutine,
\* the caller included, holds the write lock
LockFree == \A q \in Procs : ~HoldsLock(q)

\* m.mu.Lock() of Start
StartAcquire(p) ==
    /\ At(p, "m_lock")
    /\ LockFree
    /\ Return(p)
    /\ UNCHANGED <<config, reg, manager, ctx, conversations, sessions, now, endFired, startFired, op, loc, ret, out>>

\* if existing, ok := m.conversations[key]; ok { m.onEnd(ctx, existing) },
\* inside the locked section; the registered hook calls m.Count()
StartOnEnd(p) ==
    /\ At(p, "start_end")
    /\ IF Key(p) \in DOMAIN conversations
       THEN /\ endFired' = [endFired EXCEPT ![conversations[Key(p)]] = @ + 1]
            /\ Emit(p, <<"end", conversations[Key(p)]>>)
            /\ Goto(p, <<"count">>)
       ELSE /\ UNCHANGED <<endFired, out>>
            /\ Return(p)
    /\ UNCHANGED <<config, reg, manager, ctx, conversations, sessions, now, startFired, op, loc, ret>>

\* conv := NewConversation(...); m.conversations[key] = conv; m.mu.Unlock()
StartNew(p) ==
    /\ At(p, "start_new")
    /\ LET ttl == IF op[p].ttl <= 0 THEN manager.defaultTTL ELSE op[p].ttl
           id == Len(sessions) + 1
       IN  /\ sessions' = Append(sessions, NewConversation(op[p].user, op[p].chat, op[p].flow,
                                                           op[p].step, ttl, now))
           /\ conversations' = Put(conversations, Key(p), id)
           /\ loc' = [loc EXCEPT ![p].c = id]
    /\ Return(p)
    /\ UNCHANGED <<config, reg, manager, ctx, now, endFired, startFired, op, ret, out>>

\* Manager.Count: m.mu.RLock(); len(m.conversations); m.mu.RUnlock()
Count(p) ==
    /\ At(p, "count")
    /\ LockFree
    /\ Emit(p, <<"count", Cardinality(DOMAIN conversations)>>)
    /\ Return(p)
    /\ UNCHANGED <<config, reg, manager, ctx, conversations, sessions, now, endFired, startFired, op, loc, ret>>

\* Start and End of a Manager whose start and end hooks call m.Count()
CallHookedStart(p) ==
    /\ Len(sessions) + Cardinality({q \in Procs : "start_new" \in Range(pc[q])}) < MaxSessions
    /\ \E ttl \in TTLs :
          Begin(p, [NoOp EXCEPT !.name = "Start", !.user = 1, !.chat = 1, !.flow = "F",
                                !.step = "A", !.ttl = ttl],
                <<"m_lock", "start_end", "start_new", "start_hook", "count">>)

CallHookedEnd(p) ==
    Begin(p, [NoOp EXCEPT !.name = "End", !.user = 1, !.chat = 1], <<"end_lock", "end_hook", "count">>)

HooksNext ==
    \E p \in Procs :
        \/ CallHookedStart(p)
        \/ CallHookedEnd(p)
        \/ StartAcquire(p)
        \/ StartOnEnd(p)
        \/ StartNew(p)
        \/ StartHook(p)
        \/ LockFree /\ EndLock(p)
        \/ EndHook(p)
        \/ Count(p)
        \/ Done(p)

SpecHooks == Init /\ [][HooksNext]_vars

\* C34: no lifecycle hook runs while the index lock m.mu is held, so a hook
\* that calls back into the store returns: no goroutine is about to take
\* m.mu for a hook's call of Count while it holds m.mu itself
Cex_C34 == \A p \in Procs : At(p, "count") => ~HoldsLock(p)

---------------------------------------------------------------------------
\* C35: under every interleaving of Start with Start, End, Get and Cleanup on
\* the same key, the start hook of a session instance fires before its end
\* hook: no end hook has fired for a session whose start hook has not
Cex_C35 == \A i \in DOMAIN sessions : endFired[i] > 0 => startFired[i] > 0

---------------------------------------------------------------------------
(* Consecutive back callbacks *)

\* the session after the router has handled the accepted text input on it:
\* the input stored, one history entry for the step left, the next step set
Typed(c, input) ==
    LET S == GetStep(config, c.FlowID, c.StepID)
        stored == IF S.StoreAs # <<>> THEN Set(c, S.StoreAs, input) ELSE c
        h == AddHistory(stored, c.StepID, input)
        nextStep == DetermineNextStep(config, h, input)
    IN  IF nextStep = "" THEN h ELSE SetStep(h, nextStep)

\* the sessions of user 1 that texts have taken to zero to three history
\* entries
BackSessions ==
    LET c0 == NewConversation(1, 1, "F", DefaultFlows.F.InitialStep, DefaultFlows.F.TTL, 0)
        c1 == Typed(c0, s5)
    IN  {c0, c1, Typed(c1, sA), Typed(c1, s5), Typed(Typed(c1, s5), sA)}

BackInit ==
    /\ config = DefaultFlows
    /\ reg = DefaultReg
    /\ manager = NewManager(defaultTTL)
    /\ ctx = Background
    /\ \E c \in BackSessions : sessions = <<c>>
    /\ conversations = [k \in {conversationKey(1, 1)} |-> 1]
    /\ now = 0
    /\ endFired = [i \in 1..MaxSessions |-> 0]
    /\ startFired = [i \in 1..MaxSessions |-> IF i = 1 THEN 1 ELSE 0]
    /\ pc = [p \in Procs |-> <<>>]
    /\ op = [p \in Procs |-> NoOp]
    /\ loc = [p \in Procs |-> NoLoc]
    /\ ret = [p \in Procs |-> 0]
    /\ out = [p \in Procs |-> <<>>]

\* the user presses back
CallBack(p) ==
    Begin(p, Arrival([NoOp EXCEPT !.name = "Callback", !.user = 1, !.chat = 1, !.data = CallbackBack]),
          <<"hc_auth">>)

\* a back callback arrives or its handling takes its next step
BackPress ==
    \/ CallBack(Handler)
    \/ HandleCallback(Handler)
    \/ GetRead(Handler)
    \/ GetExpired(Handler)
    \/ HandleBack(Handler)
    \/ ChangeStepOld(Handler)
    \/ ChangeStepSet(Handler)
    \/ ChangeStepHook(Handler)
    \/ DisplayStep(Handler)
    \/ EndLock(Handler)
    \/ EndHook(Handler)
    \/ HandleMainMenu(Handler)
    \/ MainMenuInternal(Handler)
    \/ Done(Handler)

BackNext == Tick \/ BackPress

\* the user keeps pressing back and every press is handled to its end; time
\* may pass or stand still
FairBack == BackInit /\ [][BackNext]_vars /\ WF_vars(BackPress)

\* C36: back navigation makes progress toward the start of the flow:
\* consecutive back callbacks on a session, with no other input in between,
\* end the session after finitely many presses (at most as many as the
\* session has history entries)
Cex_C36 == <>(conversationKey(1, 1) \notin DOMAIN conversations)

---------------------------------------------------------------------------
\* C37: no operation of the Manager and no input handling of the Router
\* (text, callback, photo, document, back) changes the ExpiresAt of an
\* existing session, so a session expires its ttl after it was started
\* however recently it received input: every session of the flow, started at
\* time 0, keeps ExpiresAt at the flow's ttl
Thm_C37 ==
    /\ [](\A i \in DOMAIN sessions :
             sessions[i] # NoSession => sessions[i].ExpiresAt = config[sessions[i].FlowID].TTL)
    /\ [][\A i \in DOMAIN sessions :
             sessions[i] # NoSession /\ sessions'[i] # NoSession
             => sessions'[i].ExpiresAt = sessions[i].ExpiresAt]_vars

Wit_C37 ==
    /\ Finished(Handler, "Text")
    /\ op[Handler].preId # 0
    /\ now = MaxTime
    /\ ~op[Handler].late
    /\ LET c == sessions[op[Handler].preId]
       IN  /\ c # NoSession
           /\ Len(c.History) = Len(op[Handler].pre.History) + 1
           /\ c.StepID # op[Handler].pre.StepID
           /\ c.ExpiresAt = op[Handler].pre.ExpiresAt
           /\ c.ExpiresAt < now

---------------------------------------------------------------------------
\* text messages of one user handled by two goroutines at the same time
TextsNext ==
    \E p \in Procs :
        \/ CallText(p)
        \/ HandleMessage(p)
        \/ GetRead(p)
        \/ GetExpired(p)
        \/ HandleConversationMessage(p)
        \/ HcmValidate(p)
        \/ HcmStore(p)
        \/ HcmHistory(p)
        \/ HcmNext(p)
        \/ ChangeStepOld(p)
        \/ ChangeStepSet(p)
        \/ ChangeStepHook(p)
        \/ DisplayStep(p)
        \/ Done(p)

SpecTexts == BackInit /\ [][TextsNext]_vars

\* C38: under every interleaving of concurrent texts on one session each text
\* is processed against a single step (the step that validated it is the step
\* whose store key receives it), so a value stored under the store key of a
\* step passed that step's own validation rule
Cex_C38 ==
    \A i \in DOMAIN sessions :
        sessions[i] # NoSession =>
            \A id \in DOMAIN config[sessions[i].FlowID].Steps :
                LET S == config[sessions[i].FlowID].Steps[id]
                    c == [sessions[i] EXCEPT !.StepID = id]
                IN  S.StoreAs # <<>> /\ S.StoreAs \in DOMAIN c.Data
                    => ~ValidateInput(config, c, c.Data[S.StoreAs]).failed

---------------------------------------------------------------------------
\* C39: the (old, new) pairs the step-change hook receives for one session
\* form a chain under every interleaving of ChangeStep calls: the first
\* pair's old is the initial step and each later pair's old is the previous
\* pair's new. The sessions here start on step A and no ChangeStep sets A, so
\* in a chain only the first pair has old = A: no two goroutines have each
\* delivered a pair with old = A for the same session
Cex_C39 ==
    \A p, q \in Procs :
        p # q =>
            \A e \in Range(Events(p, "step")), f \in Range(Events(q, "step")) :
                e[2] = f[2] => ~(e[3] = "A" /\ f[3] = "A")

---------------------------------------------------------------------------
\* a call of Wrapper.StartConversation with a flow id the configuration does
\* not define
UndefinedFlow(p) == op[p].name = "StartConversation" /\ GetFlow(config, op[p].flow) = NoStep

\* C40: StartConversation with a flow id that is not defined returns an error
\* and changes nothing: its one step creates no session and fires no start or
\* end hook, and when it has returned an existing session of the same
\* (user, chat) is still in the index with its step, data and history
Thm_C40 ==
    /\ [](Finished(Handler, "StartConversation") /\ UndefinedFlow(Handler) =>
             /\ out[Handler] = << <<"error">> >>
             /\ ret[Handler] = 0
             /\ IF op[Handler].preId = 0
                THEN Key(Handler) \notin DOMAIN conversations
                ELSE /\ Key(Handler) \in DOMAIN conversations
                     /\ conversations[Key(Handler)] = op[Handler].preId
                     /\ sessions[op[Handler].preId] = op[Handler].pre)
    /\ [][UndefinedFlow(Handler) /\ Takes(Handler, "sc_flow") =>
             /\ UNCHANGED <<conversations, sessions, startFired, endFired>>
             /\ pc'[Handler] = <<"done">>]_vars

Wit_C40 ==
    /\ Finished(Handler, "StartConversation")
    /\ op[Handler].flow = "X"
    /\ UndefinedFlow(Handler)
    /\ op[Handler].preId # 0
    /\ conversations[Key(Handler)] = op[Handler].preId
    /\ sessions[op[Handler].preId].StepID = "B"
    /\ Len(sessions[op[Handler].preId].History) = 1
    /\ sN \in DOMAIN sessions[op[Handler].preId].Data
    /\ out[Handler] = << <<"error">> >>
    /\ endFired[op[Handler].preId] = 0

====
